---- MODULE Spec2Model ----
(***************************************************************************)
(* Model of the muni-bond scraper:                                         *)
(*   - CompanyStandardizer (src/src/clean_data.py): the entity registry    *)
(*     and the name / website resolvers, called one at a time and by       *)
(*     callers that share the registry;                                    *)
(*   - standardize_scraped_data (src/src/scrape/deal_info/__init__.py);    *)
(*   - extract_underwriting_discount_from_pdf                              *)
(*     (src/src/spacy/find_underwriter_discount.py);                       *)
(*   - process_pdf_discounts (src/src/spacy_find_ud/main.py) with the      *)
(*     override table (src/src/spacy_find_ud/overrides.py), next to the    *)
(*     other writers of the deals collection: main (src/src/main.py) and   *)
(*     run_emma_os_scraper (src/src/scrape/emma_os/__init__.py).           *)
(* Python strings are TLA+ strings, handled character by character with    *)
(* Len, SubSeq and \o; Python lists are sequences, sets are sets and       *)
(* dicts are functions whose DOMAIN is the set of keys.                    *)
(***************************************************************************)
EXTENDS Integers, Sequences, FiniteSets, TLC

VARIABLES standardizer, call, ncalls,
          pdf,                  \* the pages of the PDF under extraction
          overrides,            \* the override table
          reprocess_processed,  \* the argument of process_pdf_discounts
          other_updates,        \* the updates of the store by other programs
          deals,                \* the deals collection of the store
          results,              \* the results dict of process_pdf_discounts
          pc,                   \* where process_pdf_discounts stands
          last_doc,             \* id of the last document of the previous batch
          doc_list,             \* the snapshots of the current batch
          doc_index,            \* position in doc_list of the next document
          registering,          \* the add_company call under way, if any
          lookups               \* each caller's get_company_info call under way

\* State of the batch processor.
batch_vars ==
    <<overrides, reprocess_processed, other_updates, results, deals, pc, last_doc,
      doc_list, doc_index>>

\* State of the fee pipeline: the extractor and the batch processor.
pipeline_vars == <<pdf, batch_vars>>

\* State of the callers that share the registry.
caller_vars == <<registering, lookups>>

vars == <<standardizer, call, ncalls, pdf, batch_vars, caller_vars>>

(***************************************************************************)
(* Python values.                                                          *)
(***************************************************************************)
\* Python's None, as a value no string of the model is equal to.
None == "<None>"

\* a == b of two Optional values, None being equal to None alone.
Same(a, b) == IF a = None THEN b = None ELSE b # None /\ a = b

\* Truth value of an Optional[str]: None and "" are falsy.
Truthy(x) == x # None /\ x # ""

\* An empty dict.
EmptyDict == [k \in {} |-> None]

\* The results dict as process_pdf_discounts creates it.
NewResults ==
    [total_documents |-> 0,
     already_processed |-> 0,
     missing_path |-> 0,
     processing_failed |-> 0,
     successfully_processed |-> 0,
     failed_documents |-> <<>>,
     successful_documents |-> <<>>]

\* The batch processor before process_pdf_discounts is called.
BatchIdle ==
    /\ overrides = EmptyDict
    /\ reprocess_processed = TRUE
    /\ deals = EmptyDict
    /\ results = NewResults
    /\ pc = "idle"
    /\ last_doc = None
    /\ doc_list = <<>>
    /\ doc_index = 0
    /\ other_updates = <<>>

\* The fee pipeline before any document is opened.
PipelineIdle == pdf = <<>> /\ BatchIdle

\* The callers that share one CompanyStandardizer.
Callers == {"caller1", "caller2"}

\* A caller outside get_company_info.
NoLookup == [pc |-> "idle", identifier |-> None, canonical |-> None]

\* No add_company call and no get_company_info call is under way.
CallersIdle == registering = <<>> /\ lookups = [caller \in Callers |-> NoLookup]

\* dict.get(key): the value, or None when the key is absent.
DictGet(d, key) == IF key \in DOMAIN d THEN d[key] ELSE None

\* dict.get(key, default)
DictGetOr(d, key, default) == IF key \in DOMAIN d THEN d[key] ELSE default

\* for key in keys: d[key] = value
DictSetAll(d, keys, value) == [k \in keys |-> value] @@ d

\* d[key] = value
DictSet(d, key, value) == (key :> value) @@ d

(***************************************************************************)
(* Python string methods used by the code.                                 *)
(***************************************************************************)
\* A string is a sequence of characters of U+0001..U+00FF.  The three
\* characters of the source beyond U+00FF are written as C1 control
\* characters, which every operation modelled here treats as Python treats
\* the originals (no letter case, not whitespace, not a digit): U+2019, the
\* right single quotation mark, as U+0092; U+221A as U+0093; U+2260 as
\* U+0094.
RightQuote == ""

\* The capitals str.lower() changes and what it changes them to: A-Z and
\* the capitals of U+00C0..U+00DE (U+00D7, the multiplication sign, is not
\* one).
UpperLetters == "ABCDEFGHIJKLMNOPQRSTUVWXYZÀÁÂÃÄÅÆÇÈÉÊËÌÍÎÏÐÑÒÓÔÕÖØÙÚÛÜÝÞ"
LowerLetters == "abcdefghijklmnopqrstuvwxyzàáâãäåæçèéêëìíîïðñòóôõöøùúûüýþ"

\* The letters of the inputs that are spelled in capitals.
AsciiUpperLetters == "ABCDEFGHIJKLMNOPQRSTUVWXYZ"
AsciiLowerLetters == "abcdefghijklmnopqrstuvwxyz"

\* The lower-case letter of each upper-case letter.
LowerOf ==
    LET at == [i \in 1..Len(UpperLetters) |-> SubSeq(UpperLetters, i, i)]
    IN  [ch \in {at[i] : i \in 1..Len(UpperLetters)} |->
            LET i == CHOOSE i \in 1..Len(UpperLetters) : at[i] = ch
            IN  SubSeq(LowerLetters, i, i)]

\* str.lower() on one character.
LowerChar(ch) == IF ch \in DOMAIN LowerOf THEN LowerOf[ch] ELSE ch

\* str.lower(): every character lower-cased, the string taken half by half.
RECURSIVE Lower(_)
Lower(s) ==
    IF Len(s) = 0 THEN ""
    ELSE IF Len(s) = 1 THEN LowerChar(s)
    ELSE LET mid == Len(s) \div 2
         IN  Lower(SubSeq(s, 1, mid)) \o Lower(SubSeq(s, mid + 1, Len(s)))

\* The capital of each lower-case letter of a-z.
UpperOf ==
    LET at == [i \in 1..Len(AsciiLowerLetters) |-> SubSeq(AsciiLowerLetters, i, i)]
    IN  [ch \in {at[i] : i \in 1..Len(AsciiLowerLetters)} |->
            LET i == CHOOSE i \in 1..Len(AsciiLowerLetters) : at[i] = ch
            IN  SubSeq(AsciiUpperLetters, i, i)]

\* An input with its letters a-z in capitals, used to spell inputs in
\* another letter case.
RECURSIVE Upper(_)
Upper(s) ==
    IF Len(s) = 0 THEN ""
    ELSE LET ch == SubSeq(s, 1, 1)
         IN  (IF ch \in DOMAIN UpperOf THEN UpperOf[ch] ELSE ch)
                 \o Upper(SubSeq(s, 2, Len(s)))

\* The characters str.strip() removes and \s matches, those str.isspace()
\* holds for: U+0009..U+000D, U+001C..U+001F, the space, U+0085 and U+00A0.
IsSpace(ch) ==
    ch \in {"\t", "\n", "", "\f", "\r", "", "", "", "", " ", "", " "}

RECURSIVE LStrip(_)
LStrip(s) ==
    IF Len(s) > 0 /\ IsSpace(SubSeq(s, 1, 1)) THEN LStrip(SubSeq(s, 2, Len(s))) ELSE s

RECURSIVE RStrip(_)
RStrip(s) ==
    IF Len(s) > 0 /\ IsSpace(SubSeq(s, Len(s), Len(s)))
    THEN RStrip(SubSeq(s, 1, Len(s) - 1))
    ELSE s

\* str.strip()
Strip(s) == RStrip(LStrip(s))

\* str.startswith(prefix)
StartsWith(s, prefix) ==
    Len(s) >= Len(prefix) /\ SubSeq(s, 1, Len(prefix)) = prefix

\* s with its first n characters removed.
Drop(s, n) == SubSeq(s, n + 1, Len(s))

\* Position of the first sep in s from position i on, 0 when there is none.
RECURSIVE FirstAt(_, _, _)
FirstAt(s, sep, i) ==
    IF i > Len(s) THEN 0
    ELSE IF SubSeq(s, i, i) = sep THEN i
    ELSE FirstAt(s, sep, i + 1)

\* s.split(sep)[0] for a one-character sep: what precedes the first sep.
SplitFirst(s, sep) ==
    LET i == FirstAt(s, sep, 1)
    IN  IF i = 0 THEN s ELSE SubSeq(s, 1, i - 1)

\* re.sub(r"^(https?://)?(www\.)?", "", s): the pattern is anchored at the
\* start and both groups are optional and greedy, so it removes a leading
\* "http://" or "https://" when there is one, and then a leading "www.".
StripSchemeAndWww(s) ==
    LET s1 == IF StartsWith(s, "http://") THEN Drop(s, 7)
              ELSE IF StartsWith(s, "https://") THEN Drop(s, 8)
              ELSE s
    IN  IF StartsWith(s1, "www.") THEN Drop(s1, 4) ELSE s1

(***************************************************************************)
(* CompanyStandardizer.  `self` is the record of its three dicts.          *)
(***************************************************************************)
\* CompanyStandardizer.__init__ before initialize_companies(): three empty dicts.
NewStandardizer ==
    [companies |-> EmptyDict,
     name_to_canonical |-> EmptyDict,
     website_to_canonical |-> EmptyDict]

\* The Company dataclass.
Company(canonical_name, name_variations, websites) ==
    [canonical_name |-> canonical_name,
     name_variations |-> name_variations,
     websites |-> websites]

clean_website(url) ==
    IF ~Truthy(url) THEN None
    ELSE SplitFirst(StripSchemeAndWww(Strip(Lower(url))), "/")

\* The elements of a list.
Elems(list) == {list[i] : i \in 1..Len(list)}

\* add_company as it would be if a second registration merged into the
\* company's earlier record instead of replacing it.
add_company_merge(self, canonical_name, name_variations, websites) ==
    LET clean_variations == {Strip(name) : name \in Elems(name_variations)}
        clean_websites ==
            {d \in {clean_website(url) : url \in Elems(websites)} : Truthy(d)}
        old == IF canonical_name \in DOMAIN self.companies
               THEN self.companies[canonical_name]
               ELSE Company(canonical_name, {}, {})
    IN  [companies |->
             DictSet(self.companies, canonical_name,
                     Company(canonical_name,
                             old.name_variations \cup clean_variations,
                             old.websites \cup clean_websites)),
         name_to_canonical |->
             DictSetAll(self.name_to_canonical, clean_variations, canonical_name),
         website_to_canonical |->
             DictSetAll(self.website_to_canonical, clean_websites, canonical_name)]

add_company(self, canonical_name, name_variations, websites) ==
    LET clean_variations == {Strip(name) : name \in Elems(name_variations)}
        clean_websites ==
            {d \in {clean_website(url) : url \in Elems(websites)} : Truthy(d)}
    IN  [companies |->
             DictSet(self.companies, canonical_name,
                     Company(canonical_name, clean_variations, clean_websites)),
         name_to_canonical |->
             DictSetAll(self.name_to_canonical, clean_variations, canonical_name),
         website_to_canonical |->
             DictSetAll(self.website_to_canonical, clean_websites, canonical_name)]

get_canonical_name_from_website(self, website) ==
    IF ~Truthy(website) THEN None
    ELSE DictGet(self.website_to_canonical, clean_website(website))

\* get_canonical_name as it would be if a URL the website index does not
\* know were then looked up as a name.
get_canonical_name_name_fallback(self, raw_name) ==
    IF ~Truthy(raw_name) THEN None
    ELSE LET canonical == IF \/ StartsWith(raw_name, "http://")
                             \/ StartsWith(raw_name, "https://")
                             \/ StartsWith(raw_name, "www.")
                          THEN get_canonical_name_from_website(self, raw_name)
                          ELSE None
         IN  IF Truthy(canonical) THEN canonical
             ELSE DictGet(self.name_to_canonical, Strip(raw_name))

\* get_canonical_name as it would be if it handed an unknown name back
\* instead of None.
get_canonical_name_keep_raw(self, raw_name) ==
    IF ~Truthy(raw_name) THEN None
    ELSE IF \/ StartsWith(raw_name, "http://")
            \/ StartsWith(raw_name, "https://")
            \/ StartsWith(raw_name, "www.")
         THEN LET canonical == get_canonical_name_from_website(self, raw_name)
              IN  IF Truthy(canonical) THEN canonical ELSE None
         ELSE DictGetOr(self.name_to_canonical, Strip(raw_name), raw_name)

get_canonical_name(self, raw_name) ==
    IF ~Truthy(raw_name) THEN None
    ELSE IF \/ StartsWith(raw_name, "http://")
            \/ StartsWith(raw_name, "https://")
            \/ StartsWith(raw_name, "www.")
         THEN LET canonical == get_canonical_name_from_website(self, raw_name)
              IN  IF Truthy(canonical) THEN canonical ELSE None
         ELSE DictGet(self.name_to_canonical, Strip(raw_name))

\* get_company_info's resolution as it would be with the two lookups in the
\* other order: by name first, by website when the name lookup gives nothing.
get_company_info_canonical_name_first(self, identifier) ==
    LET canonical == get_canonical_name(self, identifier)
    IN  IF ~Truthy(canonical)
        THEN get_canonical_name_from_website(self, identifier)
        ELSE canonical

\* The canonical name get_company_info resolves: by website first, by name
\* when the website lookup gives nothing.
get_company_info_canonical(self, identifier) ==
    LET canonical == get_canonical_name_from_website(self, identifier)
    IN  IF ~Truthy(canonical) THEN get_canonical_name(self, identifier) ELSE canonical

\* Optional[Company]: <<>> is None, <<company>> is a Company.
get_company_info(self, identifier) ==
    LET canonical == get_company_info_canonical(self, identifier)
    IN  IF canonical \in DOMAIN self.companies
        THEN <<self.companies[canonical]>>
        ELSE <<>>

\* The three lists of initialize_companies, entry by entry as the source
\* spells them.
underwriters ==
    <<[canonical_name |-> "Barclays Capital",
       name_variations |-> <<"Barclays", "BARCLAYS", "Barclays Capital", "BARCLAYS CAPITAL",
                            "Barclays Capital Inc.">>,
       websites |-> <<"barclays.com", "barclays.co.uk">>],
      [canonical_name |-> "BofA Securities",
       name_variations |-> <<"Bank of America", "BofA Securities", "BofA Securities, Inc.",
                            "BofA Merrill Lynch", "BOFA SECURITIES", "BofA SECURITIES",
                            "Bank of America Securities", "Bank of America Securities, Inc.",
                            "BofA">>,
       websites |-> <<"bofaml.com", "bankofamerica.com">>],
      [canonical_name |-> "KeyBanc Capital Markets",
       name_variations |-> <<"KeyBanc Capital Markets", "KeyBanc Capital Markets Inc.",
                            "KeyBanc", "Key Capital Markets", "Cain Brothers",
                            "Cain Brothers, a division of KeyBanc Capital Markets">>,
       websites |-> <<"key.com", "cainbrothers.com">>],
      [canonical_name |-> "Colliers Securities",
       name_variations |-> <<"Colliers Securities", "Colliers Securities LLC", "COLLIERS",
                            "COLLIERS SECURITIES LLC">>,
       websites |-> <<"colliers.com">>],
      [canonical_name |-> "Piper Sandler",
       name_variations |-> <<"Piper Sandler", "Piper Sandler & Co.", "PIPER SANDLER",
                            "Piper Sandler & Co., Inc.", "PIPER SANDLER & CO.">>,
       websites |-> <<"pipersandler.com">>],
      [canonical_name |-> "Loop Capital Markets",
       name_variations |-> <<"Loop Capital Markets", "Loop Capital", "LOOP CAPITAL">>,
       websites |-> <<"loopcapital.com">>],
      [canonical_name |-> "Ziegler",
       name_variations |-> <<"Ziegler", "ZIEGLER", "B.C. Ziegler", "B.C. Ziegler and Company">>,
       websites |-> <<"ziegler.com">>],
      [canonical_name |-> "Fifth Third Securities",
       name_variations |-> <<"Fifth Third Securities", "Fifth Third Securities, Inc.",
                            "Fifth Third Securities, Inc. (MA)", "Fifth Third", "FIFTH THIRD",
                            "5/3 Securities">>,
       websites |-> <<"53.com">>],
      [canonical_name |-> "Goldman Sachs & Co. LLC",
       name_variations |-> <<"Goldman Sachs", "GOLDMAN SACHS", "Goldman, Sachs & Co.",
                            "Goldman Sachs & Co.", "Goldman Sachs & Co. LLC",
                            "Goldman Sachs & Co. LLC", "GS">>,
       websites |-> <<"goldmansachs.com", "gs.com">>],
      [canonical_name |-> "J.P. Morgan",
       name_variations |-> <<"JPMorgan", "J.P. Morgan", "JP Morgan", "JPMorgan Chase",
                            "JPMORGAN", "JPMorgan Chase & Co.", "JPMorgan Chase & Co.",
                            "J.P. MORGAN", "j.p. morgan", "j.p morgan", "j.p. morgan",
                            "j.p. morgan", "j.p.morgan", "jp morgan", "jpmorgan",
                            "j. p. m o r g a n", "j. p. morgan", "j .p. morgan", "j. p.morgan",
                            "j. p. morgan", "pmorgan">>,
       websites |-> <<"jpmorgan.com", "jpmorganchase.com">>],
      [canonical_name |-> "Morgan Stanley",
       name_variations |-> <<"Morgan Stanley", "MORGAN STANLEY", "Morgan Stanley & Co.",
                            "Morgan Stanley & Co. LLC">>,
       websites |-> <<"morganstanley.com">>],
      [canonical_name |-> "Citigroup",
       name_variations |-> <<"Citigroup", "CITIGROUP", "Citigroup Inc.">>,
       websites |-> <<"citigroup.com">>],
      [canonical_name |-> "RBC Capital Markets",
       name_variations |-> <<"RBC Capital Markets", "RBC", "Royal Bank of Canada", "RBC CM">>,
       websites |-> <<"rbccm.com", "rbc.com">>],
      [canonical_name |-> "TD Securities",
       name_variations |-> <<"TD Securities", "TD SECURITIES", "TD Securities Inc.",
                            "TD Securities LLC">>,
       websites |-> <<"tdsecurities.com", "td.com">>],
      [canonical_name |-> "Wells Fargo",
       name_variations |-> <<"Wells Fargo", "WELLS FARGO", "Wells Fargo Securities",
                            "Wells Fargo Bank", "Wells Fargo & Company",
                            "Wells Fargo Corporate & Investment Banking",
                            "Wells Fargo & Company, N.A.">>,
       websites |-> <<"wellsfargo.com">>],
      [canonical_name |-> "Jefferies",
       name_variations |-> <<"Jefferies", "JEFFERIES", "Jefferies LLC", "Jefferies Group">>,
       websites |-> <<"jefferies.com">>],
      [canonical_name |-> "Raymond James",
       name_variations |-> <<"Raymond James", "RAYMOND JAMES", "Raymond James & Associates">>,
       websites |-> <<"raymondjames.com">>],
      [canonical_name |-> "Truist",
       name_variations |-> <<"Truist", "TRUIST", "Truist Securities", "BB&T",
                            "SunTrust Robinson Humphrey">>,
       websites |-> <<"truist.com">>],
      [canonical_name |-> "American Veterans Group",
       name_variations |-> <<"American Veterans Group", "American Veterans Group, PBC">>,
       websites |-> <<"americanveteransgroup.com">>],
      [canonical_name |-> "Blaylock Van",
       name_variations |-> <<"Blaylock Van", "Blaylock Van, LLC">>,
       websites |-> <<"blaylockvan.com">>],
      [canonical_name |-> "BNY Mellon Capital Markets",
       name_variations |-> <<"BNY Mellon Capital Markets", "BNY Mellon Capital Markets, LLC">>,
       websites |-> <<"bnymellon.com">>],
      [canonical_name |-> "Siebert Williams Shank",
       name_variations |-> <<"Siebert Williams Shank", "Siebert Williams Shank & Co.",
                            "Siebert Williams Shank & Co., LLC", "SWS", "Siebert Williams",
                            "SIEBERT WILLIAMS SHANK">>,
       websites |-> <<"siebertwilliams.com">>],
      [canonical_name |-> "Stephens Inc.",
       name_variations |-> <<"Stephens", "Stephens Inc.", "Stephens Inc", "STEPHENS",
                            "STEPHENS INC">>,
       websites |-> <<"stephens.com">>],
      [canonical_name |-> "UBS Financial Services",
       name_variations |-> <<"UBS", "UBS Group", "Ubs", "UBS Financial",
                            "UBS Financial Services", "UBS Financial Services Inc.",
                            "UBS Securities", "UBS Investment Bank">>,
       websites |-> <<"ubs.com", "www.ubs.com">>],
      [canonical_name |-> "PNC Capital Markets",
       name_variations |-> <<"PNC", "PNC Capital Markets", "PNC Capital Markets LLC",
                            "PNC CAPITAL MARKETS", "PNC CAPITAL MARKETS LLC", "PNC Bank",
                            "PNC Financial Services">>,
       websites |-> <<"pnc.com", "pnccapitalmarkets.com">>],
      [canonical_name |-> "HJ Sims",
       name_variations |-> <<"HJ Sims", "H.J. Sims", "Herbert J. Sims", "Herbert J. Sims & Co.",
                            "Herbert J. Sims & Co., LLC", "HJS", "HJSIMS">>,
       websites |-> <<"hjsims.com">>],
      [canonical_name |-> "U.S. Bank",
       name_variations |-> <<"U.S. Bank", "US Bank", "USBank", "U.S. Bancorp", "US BANK",
                            "U.S. BANK", "U.S. Bank National Association">>,
       websites |-> <<"usbank.com", "www.usbank.com">>],
      [canonical_name |-> "Northland Securities",
       name_variations |-> <<"Northland Securities", "Northland Securities, Inc.",
                            "NORTHLAND SECURITIES", "Northland", "NorthlandSecurities",
                            "Northland Capital Markets">>,
       websites |-> <<"northlandsecurities.com", "northlandcapitalmarkets.com">>],
      [canonical_name |-> "Academy Securities",
       name_variations |-> <<"Academy Securities", "Academy Securities, Inc.",
                            "ACADEMY SECURITIES">>,
       websites |-> <<"academysecurities.com">>],
      [canonical_name |-> "AmeriVet Securities",
       name_variations |-> <<"AmeriVet Securities", "AmeriVet Securities, Inc.",
                            "AMERIVET SECURITIES">>,
       websites |-> <<"amerivetsecurities.com">>],
      [canonical_name |-> "Bancroft Capital",
       name_variations |-> <<"Bancroft Capital", "Bancroft Capital, LLC", "BANCROFT CAPITAL">>,
       websites |-> <<"bancroft4vets.com">>],
      [canonical_name |-> "Cabrera Capital Markets",
       name_variations |-> <<"Cabrera Capital Markets", "Cabrera Capital Markets, LLC",
                            "CABRERA CAPITAL MARKETS">>,
       websites |-> <<"cabreracapital.com">>],
      [canonical_name |-> "Davenport & Company",
       name_variations |-> <<"Davenport & Company", "Davenport & Company LLC", "Davenport & Co.",
                            "DAVENPORT & COMPANY">>,
       websites |-> <<"davenportllc.com", "investdavenport.com">>],
      [canonical_name |-> "FHN Financial Capital Markets",
       name_variations |-> <<"FHN Financial Capital Markets", "FHN Financial", "First Horizon",
                            "FHN FINANCIAL">>,
       websites |-> <<"fhnfinancial.com">>],
      [canonical_name |-> "Huntington Capital Markets",
       name_variations |-> <<"Huntington Capital Markets", "Huntington",
                            "HUNTINGTON CAPITAL MARKETS", "The Huntington Investment Company">>,
       websites |-> <<"huntington.com">>],
      [canonical_name |-> "Janney Montgomery Scott",
       name_variations |-> <<"Janney Montgomery Scott", "Janney Montgomery Scott LLC", "Janney",
                            "JANNEY MONTGOMERY SCOTT">>,
       websites |-> <<"janney.com">>],
      [canonical_name |-> "Melvin Securities",
       name_variations |-> <<"Melvin Securities", "Melvin Securities, LLC", "MELVIN SECURITIES">>,
       websites |-> <<"melvinsecurities.com">>],
      [canonical_name |-> "Multi-Bank Securities",
       name_variations |-> <<"Multi-Bank Securities", "Multi-Bank Securities, Inc.",
                            "MULTI-BANK SECURITIES", "MBS">>,
       websites |-> <<"mbssecurities.com">>],
      [canonical_name |-> "Rice Financial Products Company",
       name_variations |-> <<"Rice Financial Products Company", "Rice Financial",
                            "RICE FINANCIAL PRODUCTS COMPANY", "Rice Financial Products Co.">>,
       websites |-> <<"ricefin.com">>],
      [canonical_name |-> "SMBC Nikko",
       name_variations |-> <<"SMBC Nikko", "SMBC Nikko Securities America", "SMBC NIKKO",
                            "SMBC Nikko Securities">>,
       websites |-> <<"smbcnikko-si.com">>],
      [canonical_name |-> "Ramirez & Co.",
       name_variations |-> <<"Ramirez & Co.", "Ramirez & Co., Inc.", "RAMIREZ & CO., INC.",
                            "Ramirez", "Samuel A. Ramirez & Company">>,
       websites |-> <<"ramirezco.com">>],
      [canonical_name |-> "Estrada Hinojosa",
       name_variations |-> <<"Estrada Hinojosa", "Estrada Hinojosa & Company",
                            "Estrada Hinojosa & Company, Inc.", "ESTRADA HINOJOSA",
                            "TRB Capital Markets", "TRB Capital Markets, LLC",
                            "Estrada Hinojosa Investment Bankers">>,
       websites |-> <<"ehmuni.com", "estradahinojosa.com">>],
      [canonical_name |-> "Bryant Miller Olive",
       name_variations |-> <<"Burke, Mayborn, O'Mara", "Burke Mayborn O'Mara",
                            "Bryant Miller Olive", "BMO Law">>,
       websites |-> <<"bmolaw.com">>],
      [canonical_name |-> "Brown Hutchinson",
       name_variations |-> <<"Brown Hutchinson", "BROWN HUTCHINSON", "Brown Hutchinson LLP">>,
       websites |-> <<"brownhutchinson.com">>],
      [canonical_name |-> "Hardwick Shiver",
       name_variations |-> <<"Hardwick Shiver", "HARDWICK SHIVER", "Hardwick Shiver Brown",
                            "HSB Law">>,
       websites |-> <<"hsblawfirm.com">>],
      [canonical_name |-> "Katten Muchin Rosenman",
       name_variations |-> <<"Katten Muchin Rosenman", "Katten", "KATTEN", "Katten Law">>,
       websites |-> <<"kattenlaw.com">>],
      [canonical_name |-> "Nabors, Giblin & Nickerson, P.A.",
       name_variations |-> <<"NG&N", "Nabors, Giblin & Nickerson", "NGN Law",
                            "Nabors, Giblin & Nickerson, P.A.">>,
       websites |-> <<"ngnlaw.com">>],
      [canonical_name |-> "Pearlman & Miranda, LLC",
       name_variations |-> <<"Pearlman & Miranda", "Pearlman & Miranda, LLC",
                            "Pearlman and Miranda", "PEARLMAN & MIRANDA", "Pearlman Miranda">>,
       websites |-> <<"pearlmanmiranda.com">>],
      [canonical_name |-> "Robinson Bradshaw",
       name_variations |-> <<"Robinson Bradshaw", "ROBINSON BRADSHAW",
                            "Robinson Bradshaw & Hinson", "RBH Law">>,
       websites |-> <<"rbh.com", "robinsonbradshaw.com">>],
      [canonical_name |-> "Saul Ewing",
       name_variations |-> <<"Saul Ewing", "SAUL EWING", "Saul Ewing LLP",
                            "Saul Ewing Arnstein & Lehr">>,
       websites |-> <<"saul.com">>],
      [canonical_name |-> "Oppenheimer & Co.",
       name_variations |-> <<"Oppenheimer & Co.", "Oppenheimer", "OPPENHEIMER",
                            "Oppenheimer & Co. Inc.", "Opco">>,
       websites |-> <<"opco.com", "oppenheimer.com">>],
      [canonical_name |-> "Mesirow Financial",
       name_variations |-> <<"Mesirow Financial", "Mesirow", "MESIROW",
                            "Mesirow Financial Holdings, Inc.">>,
       websites |-> <<"mesirow.com", "mesirowfinancial.com">>],
      [canonical_name |-> "Blue River Analytics",
       name_variations |-> <<"Blue River Analytics", "Blue River", "BRV", "BRV LLC",
                            "Blue River Analytics, LLC">>,
       websites |-> <<"brv-llc.com">>],
      [canonical_name |-> "The Frazer Lanier Company",
       name_variations |-> <<"The Frazer Lanier Company", "Frazer Lanier", "FRAZER LANIER",
                            "Frazer Lanier Company">>,
       websites |-> <<"frazerlanier.com">>],
      [canonical_name |-> "UMB Financial",
       name_variations |-> <<"UMB Financial", "UMB Bank", "UMB", "UMB Financial Corporation",
                            "UMB Bank n.a.">>,
       websites |-> <<"umb.com">>]>>

municipal_advisors ==
    <<[canonical_name |-> "SDAO Advisory Services",
       name_variations |-> <<"SDAO Advisory Services", "SDAO Advisory Services LLC", "SDAOAS">>,
       websites |-> <<"sdao.com">>],
      [canonical_name |-> "Houlihan Lokey",
       name_variations |-> <<"Houlihan Lokey", "Houlihan Lokey Capital",
                            "Houlihan Lokey Capital, Inc", "Houlihan Lokey Capital, Inc (MA)">>,
       websites |-> <<"hl.com">>],
      [canonical_name |-> "Echo Financial Products",
       name_variations |-> <<"Echo Financial Products", "Echo Financial Products, LLC",
                            "Echo Financial Products, LLC (MA)">>,
       websites |-> <<"echo-fp.com">>],
      [canonical_name |-> "Hilltop Securities",
       name_variations |-> <<"Hilltop Securities", "Hilltop Securities Inc.",
                            "Hilltop Securities Inc. (MA)", "HilltopSecurities", "HILLTOP">>,
       websites |-> <<"hilltopsecurities.com">>],
      [canonical_name |-> "Kaufman Hall",
       name_variations |-> <<"Kaufman Hall", "Kaufman, Hall & Associates",
                            "Kaufman, Hall & Associates, LLC",
                            "Kaufman, Hall & Associates, LLC (MA)", "kaufm (MA)">>,
       websites |-> <<"kaufmanhall.com">>],
      [canonical_name |-> "PFM Financial Advisors",
       name_variations |-> <<"PFM", "PFM Financial Advisors", "PFM Financial Advisors LLC",
                            "PFM Financial Advisors LLC (MA)", "Public Financial Management">>,
       websites |-> <<"pfm.com">>],
      [canonical_name |-> "First River Advisory",
       name_variations |-> <<"First River Advisory", "First River Advisory L.L.C.",
                            "First River Advisory LLC", "First River Advisory L.L.C",
                            "First River", "FRA">>,
       websites |-> <<"firstriver.com">>],
      [canonical_name |-> "Columbia Capital",
       name_variations |-> <<"Columbia Capital", "Columbia Capital Management",
                            "Columbia Capital Management, LLC">>,
       websites |-> <<"columbiacapital.com">>],
      [canonical_name |-> "Melio & Company",
       name_variations |-> <<"Melio & Company", "Melio and Company", "Melio & Co",
                            "Melio Company">>,
       websites |-> <<"meliocompany.com">>],
      [canonical_name |-> "Ponder & Co.",
       name_variations |-> <<"Ponder & Co.", "Ponder and Company", "Ponder & Company", "Ponder">>,
       websites |-> <<"ponderco.com">>],
      [canonical_name |-> "Swap Financial Group",
       name_variations |-> <<"Swap Financial Group", "Swap Financial", "SWAP Financial Group",
                            "SFG">>,
       websites |-> <<"swapfinancial.com">>],
      [canonical_name |-> "AAFAF",
       name_variations |-> <<"AAFAF",
                            "Puerto Rico Fiscal Agency and Financial Advisory Authority",
                            "Autoridad de Asesora Financiera y Agencia Fiscal">>,
       websites |-> <<"aafaf.pr.gov">>],
      [canonical_name |-> "Acacia Financial Group",
       name_variations |-> <<"Acacia Financial Group", "Acacia Financial", "ACACIA",
                            "Acacia Financial Group, Inc.">>,
       websites |-> <<"acaciafin.com">>],
      [canonical_name |-> "Argent Financial Group",
       name_variations |-> <<"Argent Financial Group", "Argent Financial", "ARGENT",
                            "Argent Financial Group, Inc.">>,
       websites |-> <<"argentfinancial.com">>],
      [canonical_name |-> "Brown Advisory",
       name_variations |-> <<"Brown Advisory", "Brown Advisory LLC", "BROWN ADVISORY">>,
       websites |-> <<"brownadvisory.com">>],
      [canonical_name |-> "Evercrest Capital",
       name_variations |-> <<"Evercrest Capital", "Evercrest Advisors", "EVERCREST",
                            "Evercrest Capital Advisors">>,
       websites |-> <<"evercrestadvisors.com">>],
      [canonical_name |-> "First Tryon Advisors",
       name_variations |-> <<"First Tryon Advisors", "First Tryon", "FIRST TRYON">>,
       websites |-> <<"firsttryon.com">>],
      [canonical_name |-> "Government Capital Securities",
       name_variations |-> <<"Government Capital Securities",
                            "Government Capital Securities Corporation", "GovCap Securities",
                            "GOVCAP">>,
       websites |-> <<"govcapsecurities.com">>],
      [canonical_name |-> "Hammond Hanlon Camp",
       name_variations |-> <<"Hammond Hanlon Camp", "Hammond Hanlon Camp LLC", "H2C",
                            "H2C Securities">>,
       websites |-> <<"h2c.com">>],
      [canonical_name |-> "Hamlin Capital Advisors",
       name_variations |-> <<"Hamlin Capital Advisors", "Hamlin Capital", "Hamlin Advisors",
                            "HAMLIN">>,
       websites |-> <<"hamlinadvisors.com">>],
      [canonical_name |-> "Huron Consulting Group",
       name_variations |-> <<"Huron Consulting Group", "Huron Consulting", "Huron", "HURON">>,
       websites |-> <<"huronconsultinggroup.com">>],
      [canonical_name |-> "Lamont Financial Services",
       name_variations |-> <<"Lamont Financial Services", "Lamont Financial", "LAMONT",
                            "Lamont Financial Services Corporation">>,
       websites |-> <<"lamontfin.com">>],
      [canonical_name |-> "The Majors Group",
       name_variations |-> <<"The Majors Group", "Majors Group", "MAJORS GROUP", "Majors">>,
       websites |-> <<"majorsgrp.com">>],
      [canonical_name |-> "Marathon Capital",
       name_variations |-> <<"Marathon Capital", "MARATHON CAPITAL", "Marathon", "MARA Capital">>,
       websites |-> <<"mara-cap.com">>],
      [canonical_name |-> "Public Resources Advisory Group",
       name_variations |-> <<"Public Resources Advisory Group", "PRAG", "Public Resources",
                            "PRAG Advisors">>,
       websites |-> <<"pragadvisors.com">>],
      [canonical_name |-> "Prager & Co.",
       name_variations |-> <<"Prager & Co.", "Prager", "PRAGER", "Prager & Company",
                            "Prager & Company, LLC">>,
       websites |-> <<"prager.com">>],
      [canonical_name |-> "Robert W. Baird",
       name_variations |-> <<"Robert W. Baird", "Baird", "R.W. Baird", "Robert W. Baird & Co.",
                            "BAIRD">>,
       websites |-> <<"rwbaird.com">>],
      [canonical_name |-> "Stifel",
       name_variations |-> <<"Stifel", "STIFEL", "Stifel Financial", "Stifel Financial Corp.",
                            "Stifel, Nicolaus & Company">>,
       websites |-> <<"stifel.com">>],
      [canonical_name |-> "Yuba Group",
       name_variations |-> <<"Yuba Group", "YUBA GROUP", "Yuba", "The Yuba Group">>,
       websites |-> <<"yubagroup.com">>]>>

law_firms ==
    <<[canonical_name |-> "Cantu Harden Montoya",
       name_variations |-> <<"Cantu Harden Montoya", "CANTU HARDEN MONTOYA",
                            "Cantu Harden & Montoya">>,
       websites |-> <<"cantuhardenmontoya.com">>],
      [canonical_name |-> "Murray Barnes Finister",
       name_variations |-> <<"Murray Barnes Finister", "Murray Barnes Law", "MURRAY BARNES">>,
       websites |-> <<"murraybarneslaw.com">>],
      [canonical_name |-> "Balch & Bingham",
       name_variations |-> <<"Balch & Bingham", "Balch and Bingham", "BALCH">>,
       websites |-> <<"balch.com">>],
      [canonical_name |-> "Ballard Spahr",
       name_variations |-> <<"Ballard Spahr", "BALLARD SPAHR", "Ballard Spahr LLP">>,
       websites |-> <<"ballardspahr.com">>],
      [canonical_name |-> "Bass Berry & Sims",
       name_variations |-> <<"Bass Berry & Sims", "Bass, Berry & Sims", "BASS BERRY">>,
       websites |-> <<"bassberry.com">>],
      [canonical_name |-> "Barnes & Thornburg",
       name_variations |-> <<"Barnes & Thornburg", "Barnes and Thornburg", "BT Law">>,
       websites |-> <<"btlaw.com">>],
      [canonical_name |-> "Bracewell",
       name_variations |-> <<"Bracewell", "Bracewell LLP", "Bracewell Law">>,
       websites |-> <<"bracewelllaw.com">>],
      [canonical_name |-> "Bricker & Eckler",
       name_variations |-> <<"Bricker & Eckler", "Bricker Graydon", "BRICKER">>,
       websites |-> <<"brickergraydon.com">>],
      [canonical_name |-> "Chapman and Cutler",
       name_variations |-> <<"Chapman and Cutler", "Chapman & Cutler", "Chapman">>,
       websites |-> <<"chapman.com">>],
      [canonical_name |-> "Dickinson Wright",
       name_variations |-> <<"Dickinson Wright", "DICKINSON WRIGHT", "Dickinson Wright PLLC">>,
       websites |-> <<"dickinson-wright.com">>],
      [canonical_name |-> "Dinsmore & Shohl",
       name_variations |-> <<"Dinsmore & Shohl", "Dinsmore", "DINSMORE">>,
       websites |-> <<"dinsmore.com">>],
      [canonical_name |-> "Dorsey & Whitney",
       name_variations |-> <<"Dorsey & Whitney", "Dorsey", "DORSEY">>,
       websites |-> <<"dorsey.com">>],
      [canonical_name |-> "Foley & Lardner",
       name_variations |-> <<"Foley & Lardner", "Foley", "FOLEY">>,
       websites |-> <<"foley.com">>],
      [canonical_name |-> "Fox Rothschild",
       name_variations |-> <<"Fox Rothschild", "FOX ROTHSCHILD", "Fox Rothschild LLP">>,
       websites |-> <<"foxrothschild.com">>],
      [canonical_name |-> "Gilmore & Bell",
       name_variations |-> <<"Gilmore & Bell", "Gilmore and Bell", "GILMORE BELL">>,
       websites |-> <<"gilmorebell.com">>],
      [canonical_name |-> "Harris Beach",
       name_variations |-> <<"Harris Beach", "HARRIS BEACH", "Harris Beach PLLC">>,
       websites |-> <<"harrisbeach.com">>],
      [canonical_name |-> "Hawkins Delafield & Wood",
       name_variations |-> <<"Hawkins Delafield & Wood", "Hawkins", "HAWKINS">>,
       websites |-> <<"hawkins.com">>],
      [canonical_name |-> "Kutak Rock",
       name_variations |-> <<"Kutak Rock", "KUTAK ROCK", "Kutak Rock LLP">>,
       websites |-> <<"kutakrock.com">>],
      [canonical_name |-> "McGuireWoods",
       name_variations |-> <<"McGuireWoods", "McGuire Woods", "MCGUIREWOODS">>,
       websites |-> <<"mcguirewoods.com">>],
      [canonical_name |-> "Mintz Levin",
       name_variations |-> <<"Mintz Levin", "Mintz", "MINTZ">>,
       websites |-> <<"mintz.com">>],
      [canonical_name |-> "Norton Rose Fulbright",
       name_variations |-> <<"Norton Rose Fulbright", "Norton Rose", "NORTON ROSE FULBRIGHT">>,
       websites |-> <<"nortonrosefulbright.com">>],
      [canonical_name |-> "Orrick Herrington",
       name_variations |-> <<"Orrick Herrington", "Orrick", "ORRICK">>,
       websites |-> <<"orrick.com">>],
      [canonical_name |-> "Quarles & Brady",
       name_variations |-> <<"Quarles & Brady", "Quarles", "QUARLES">>,
       websites |-> <<"quarles.com">>],
      [canonical_name |-> "Squire Patton Boggs",
       name_variations |-> <<"Squire Patton Boggs", "Squire", "SQUIRE PATTON BOGGS">>,
       websites |-> <<"squirepattonboggs.com">>],
      [canonical_name |-> "Taft Stettinius & Hollister",
       name_variations |-> <<"Taft Stettinius & Hollister", "Taft Law", "TAFT">>,
       websites |-> <<"taftlaw.com">>],
      [canonical_name |-> "Holley Pearson Farrer",
       name_variations |-> <<"Holley Pearson Farrer", "Holley Pearson Farrer & Associates">>,
       websites |-> <<"holleypearsonfarrer.com">>],
      [canonical_name |-> "Hinckley Allen",
       name_variations |-> <<"Hinckley Allen", "HINCKLEY ALLEN", "Hinckley Allen LLP">>,
       websites |-> <<"hinckleyallen.com", "www.hinckleyallen.com">>],
      [canonical_name |-> "Calfee Halter & Griswold",
       name_variations |-> <<"Calfee Halter & Griswold", "Calfee", "CALFEE", "Calfee Law">>,
       websites |-> <<"calfee.com">>],
      [canonical_name |-> "Friday Eldredge & Clark",
       name_variations |-> <<"Friday Eldredge & Clark", "Friday Firm", "FRIDAY", "Friday Law">>,
       websites |-> <<"fridayfirm.com">>],
      [canonical_name |-> "Llorente & Heckler",
       name_variations |-> <<"Llorente & Heckler", "Llorente and Heckler", "LLORENTE HECKLER">>,
       websites |-> <<"llorenteheckler.com">>],
      [canonical_name |-> "Turner Law",
       name_variations |-> <<"Turner Law", "Turner Law PC", "TURNER LAW">>,
       websites |-> <<"turnerlawpc.com">>],
      [canonical_name |-> "Barclay Damon",
       name_variations |-> <<"Barclay Damon", "Barclay Damon LLP", "BARCLAY DAMON">>,
       websites |-> <<"barclaydamon.com">>],
      [canonical_name |-> "Best Best & Krieger",
       name_variations |-> <<"Best Best & Krieger", "BBK Law", "BB&K", "Best Best and Krieger">>,
       websites |-> <<"bbklaw.com">>],
      [canonical_name |-> "Buchanan Ingersoll & Rooney",
       name_variations |-> <<"Buchanan Ingersoll & Rooney", "Buchanan Ingersoll", "BIPC",
                            "Buchanan Law">>,
       websites |-> <<"bipc.com">>],
      [canonical_name |-> "Bond Schoeneck & King",
       name_variations |-> <<"Bond Schoeneck & King", "Bond Schoeneck", "BSK Law", "BSK">>,
       websites |-> <<"bsk.com">>],
      [canonical_name |-> "Butler Snow",
       name_variations |-> <<"Butler Snow", "Butler Snow LLP", "BUTLER SNOW">>,
       websites |-> <<"butlersnow.com">>],
      [canonical_name |-> "Cozen O'Connor",
       name_variations |-> <<"Cozen O'Connor", "Cozen", "COZEN", "Cozen O'Connor PC">>,
       websites |-> <<"cozen.com">>],
      [canonical_name |-> "Dilworth Paxson",
       name_variations |-> <<"Dilworth Paxson", "Dilworth", "DILWORTH", "Dilworth Paxson LLP">>,
       websites |-> <<"dilworthlaw.com">>],
      [canonical_name |-> "D. Seaton & Associates",
       name_variations |-> <<"D. Seaton & Associates", "D Seaton", "D. Seaton",
                            "Seaton & Associates">>,
       websites |-> <<"dseatonaa.com">>],
      [canonical_name |-> "Eckert Seamans",
       name_variations |-> <<"Eckert Seamans", "Eckert Seamans Cherin & Mellott",
                            "ECKERT SEAMANS">>,
       websites |-> <<"eckertseamans.com">>],
      [canonical_name |-> "Foster Garvey",
       name_variations |-> <<"Foster Garvey", "Foster Garvey PC", "FOSTER GARVEY", "Foster Law">>,
       websites |-> <<"foster.com">>],
      [canonical_name |-> "Frost Brown Todd",
       name_variations |-> <<"Frost Brown Todd", "Frost Brown Todd LLC", "FBT Law",
                            "FROST BROWN TODD">>,
       websites |-> <<"frostbrowntodd.com">>],
      [canonical_name |-> "Fryberger Buchanan",
       name_variations |-> <<"Fryberger Buchanan", "Fryberger", "FRYBERGER", "Fryberger Law">>,
       websites |-> <<"fryberger.com">>],
      [canonical_name |-> "Gordon Rees Scully Mansukhani",
       name_variations |-> <<"Gordon Rees Scully Mansukhani", "Gordon & Rees", "GRSM", "GPW Law">>,
       websites |-> <<"gpwlawfirm.com">>],
      [canonical_name |-> "GrayRobinson",
       name_variations |-> <<"GrayRobinson", "Gray Robinson", "GRAY ROBINSON", "GrayRobinson PA">>,
       websites |-> <<"gray-robinson.com">>],
      [canonical_name |-> "Greensfelder",
       name_variations |-> <<"Greensfelder", "Greensfelder, Hemker & Gale", "GREENSFELDER",
                            "Greensfelder Law">>,
       websites |-> <<"greensfelder.com">>],
      [canonical_name |-> "Greenberg Traurig",
       name_variations |-> <<"Greenberg Traurig", "GT Law", "GREENBERG TRAURIG",
                            "Greenberg Traurig LLP">>,
       websites |-> <<"gtlaw.com">>],
      [canonical_name |-> "Hall Render",
       name_variations |-> <<"Hall Render", "Hall Render Killian Heath & Lyman", "HALL RENDER",
                            "Hall Render Law">>,
       websites |-> <<"hallrender.com">>],
      [canonical_name |-> "Hillis Clark Martin & Peterson",
       name_variations |-> <<"Hillis Clark Martin & Peterson", "HCMP", "Hillis Clark",
                            "HCMP Law">>,
       websites |-> <<"hcmp.com">>],
      [canonical_name |-> "Ice Miller",
       name_variations |-> <<"Ice Miller", "Ice Miller LLP", "ICE MILLER", "Ice Miller Law">>,
       websites |-> <<"icemiller.com">>],
      [canonical_name |-> "Jones Walker",
       name_variations |-> <<"Jones Walker", "Jones Walker LLP", "JONES WALKER",
                            "Jones Walker Law">>,
       websites |-> <<"joneswalker.com">>],
      [canonical_name |-> "Jackson Walker",
       name_variations |-> <<"Jackson Walker", "Jackson Walker LLP", "JACKSON WALKER", "JW Law">>,
       websites |-> <<"jw.com">>],
      [canonical_name |-> "Kelly Hart",
       name_variations |-> <<"Kelly Hart", "Kelly Hart & Hallman", "KELLY HART",
                            "Kelly Hart Law">>,
       websites |-> <<"kellyhart.com">>],
      [canonical_name |-> "K&L Gates",
       name_variations |-> <<"K&L Gates", "KL Gates", "K AND L GATES", "K&L Gates LLP">>,
       websites |-> <<"klgates.com">>],
      [canonical_name |-> "King & Spalding",
       name_variations |-> <<"King & Spalding", "King and Spalding", "KING & SPALDING",
                            "King & Spalding LLP">>,
       websites |-> <<"kslaw.com">>],
      [canonical_name |-> "Locke Lord",
       name_variations |-> <<"Locke Lord", "Locke Lord LLP", "LOCKE LORD", "Locke Lord Law">>,
       websites |-> <<"lockelord.com">>],
      [canonical_name |-> "Maynard Cooper & Gale",
       name_variations |-> <<"Maynard Cooper & Gale", "Maynard Cooper", "MAYNARD COOPER",
                            "Maynard Law">>,
       websites |-> <<"maynardcooper.com">>],
      [canonical_name |-> "Miller Canfield",
       name_variations |-> <<"Miller Canfield", "Miller, Canfield, Paddock and Stone",
                            "MILLER CANFIELD", "Miller Canfield Law">>,
       websites |-> <<"millercanfield.com">>],
      [canonical_name |-> "Modrall Sperling",
       name_variations |-> <<"Modrall Sperling", "Modrall", "MODRALL", "Modrall Law">>,
       websites |-> <<"modrall.com">>],
      [canonical_name |-> "Nixon Peabody",
       name_variations |-> <<"Nixon Peabody", "Nixon Peabody LLP", "NIXON PEABODY", "Nixon Law">>,
       websites |-> <<"nixonpeabody.com">>],
      [canonical_name |-> "Pacifica Law Group",
       name_variations |-> <<"Pacifica Law Group", "Pacifica Law", "PACIFICA", "Pacifica Legal">>,
       websites |-> <<"pacificalawgroup.com">>],
      [canonical_name |-> "Parker Poe",
       name_variations |-> <<"Parker Poe", "Parker Poe Adams & Bernstein", "PARKER POE",
                            "Parker Poe Law">>,
       websites |-> <<"parkerpoe.com">>],
      [canonical_name |-> "Polsinelli",
       name_variations |-> <<"Polsinelli", "Polsinelli PC", "POLSINELLI", "Polsinelli Law">>,
       websites |-> <<"polsinelli.com">>],
      [canonical_name |-> "Pope Flynn",
       name_variations |-> <<"Pope Flynn", "Pope Flynn Group", "POPE FLYNN", "Pope Flynn LLC">>,
       websites |-> <<"popeflynn.com">>],
      [canonical_name |-> "Pullman & Comley",
       name_variations |-> <<"Pullman & Comley", "Pullman & Comley LLC", "PULLMAN",
                            "Pullman Law">>,
       websites |-> <<"pullcom.com">>],
      [canonical_name |-> "Quilling Selander",
       name_variations |-> <<"Quilling Selander", "Quilling, Selander, Lownds, Winslett & Moser",
                            "QUILLING", "QT Law">>,
       websites |-> <<"qtllp.com">>],
      [canonical_name |-> "Ropes & Gray",
       name_variations |-> <<"Ropes & Gray", "Ropes and Gray", "ROPES & GRAY",
                            "Ropes & Gray LLP">>,
       websites |-> <<"ropesgray.com">>],
      [canonical_name |-> "Savage Law Partners",
       name_variations |-> <<"Savage Law Partners", "Savage Law", "SAVAGE LAW",
                            "Savage Law Partners LLP">>,
       websites |-> <<"savagelawpartners.com">>],
      [canonical_name |-> "Smith Gambrell & Russell",
       name_variations |-> <<"Smith Gambrell & Russell", "Smith Gambrell", "SGR Law", "SGR">>,
       websites |-> <<"sgrlaw.com">>],
      [canonical_name |-> "Sherman & Howard",
       name_variations |-> <<"Sherman & Howard", "Sherman and Howard", "SHERMAN HOWARD",
                            "Sherman & Howard LLC">>,
       websites |-> <<"shermanhoward.com">>],
      [canonical_name |-> "Stradling Yocca Carlson & Rauth",
       name_variations |-> <<"Stradling Yocca Carlson & Rauth", "Stradling", "SYCR",
                            "Stradling Law">>,
       websites |-> <<"sycr.com">>],
      [canonical_name |-> "Thompson Hine",
       name_variations |-> <<"Thompson Hine", "Thompson Hine LLP", "THOMPSON HINE",
                            "Thompson Law">>,
       websites |-> <<"thompsonhine.com">>]>>

\* all_companies = underwriters + municipal_advisors + law_firms
all_companies == underwriters \o municipal_advisors \o law_firms

\* for company in entries[lo..hi]: self.add_company(...), in the order of
\* the list: the first half of the range, then the second half on the
\* registry the first half leaves.  The comparison has the first half
\* evaluated before the second is entered.
RECURSIVE AddAll(_, _, _, _)
AddAll(self, entries, lo, hi) ==
    IF lo > hi THEN self
    ELSE IF lo = hi
    THEN add_company(self, entries[lo].canonical_name, entries[lo].name_variations,
                     entries[lo].websites)
    ELSE LET mid == (lo + hi) \div 2
             first == AddAll(self, entries, lo, mid)
         IN  IF first = self THEN AddAll(self, entries, mid + 1, hi)
             ELSE AddAll(first, entries, mid + 1, hi)

\* What the loop of initialize_companies leaves of three empty dicts.
SeededDicts == AddAll(NewStandardizer, all_companies, 1, Len(all_companies))

\* initialize_companies().  The loop writes, entry after entry, keys and
\* values that do not depend on what the dicts hold, so what it leaves of
\* self is what it leaves of three empty dicts, laid over the dicts of self.
initialize_companies(self) ==
    [companies |-> SeededDicts.companies @@ self.companies,
     name_to_canonical |-> SeededDicts.name_to_canonical @@ self.name_to_canonical,
     website_to_canonical |->
         SeededDicts.website_to_canonical @@ self.website_to_canonical]

\* CompanyStandardizer(): the three empty dicts, then initialize_companies().
CompanyStandardizer == initialize_companies(NewStandardizer)

(***************************************************************************)
(* standardize_scraped_data.  data is a dict: a function whose DOMAIN holds *)
(* the keys present.                                                       *)
(***************************************************************************)
\* for item in items: if item: append the canonical name when
\* get_canonical_name finds one, the item itself otherwise.
\* The loop as it would be if an item the registry does not know were
\* skipped instead of kept.
RECURSIVE StandardizeItems_drop_unknown(_, _, _)
StandardizeItems_drop_unknown(self, items, i) ==
    IF i > Len(items) THEN <<>>
    ELSE LET item == items[i]
             canonical == get_canonical_name(self, item)
         IN  (IF Truthy(item) /\ Truthy(canonical) THEN <<canonical>> ELSE <<>>)
                 \o StandardizeItems_drop_unknown(self, items, i + 1)

RECURSIVE StandardizeItems(_, _, _)
StandardizeItems(self, items, i) ==
    IF i > Len(items) THEN <<>>
    ELSE LET item == items[i]
             canonical == get_canonical_name(self, item)
         IN  (IF ~Truthy(item) THEN <<>>
              ELSE IF Truthy(canonical) THEN <<canonical>>
              ELSE <<item>>)
                 \o StandardizeItems(self, items, i + 1)

\* The loop over co_managers, municipal_advisors and counsels: a field that
\* is not in data stays [].
StandardizeField(self, data, field) ==
    IF field \in DOMAIN data THEN StandardizeItems(self, data[field], 1) ELSE <<>>

\* standardize_scraped_data as it would be if the guard only tested that the
\* lead_managers key is present.
standardize_scraped_data_key_only(data, self) ==
    IF "lead_managers" \notin DOMAIN data
    THEN EmptyDict
    ELSE [lead_managers |-> StandardizeItems(self, data["lead_managers"], 1),
          co_managers |-> StandardizeField(self, data, "co_managers"),
          municipal_advisors |-> StandardizeField(self, data, "municipal_advisors"),
          counsels |-> StandardizeField(self, data, "counsels"),
          os_file_path |-> DictGet(data, "os_file_path"),
          unprocessed_deal_scrape |->
              [lead_managers |-> DictGetOr(data, "lead_managers", <<>>),
               co_managers |-> DictGetOr(data, "co_managers", <<>>),
               municipal_advisors |-> DictGetOr(data, "municipal_advisors", <<>>),
               counsels |-> DictGetOr(data, "counsels", <<>>)]]

\* standardize_scraped_data as it would be if unprocessed_deal_scrape were
\* filled from the standardized lists.
standardize_scraped_data_audit_standardized(data, self) ==
    IF "lead_managers" \notin DOMAIN data \/ data["lead_managers"] = <<>>
    THEN EmptyDict
    ELSE LET std == [lead_managers |-> StandardizeItems(self, data["lead_managers"], 1),
                     co_managers |-> StandardizeField(self, data, "co_managers"),
                     municipal_advisors |-> StandardizeField(self, data, "municipal_advisors"),
                     counsels |-> StandardizeField(self, data, "counsels")]
         IN  [lead_managers |-> std.lead_managers,
              co_managers |-> std.co_managers,
              municipal_advisors |-> std.municipal_advisors,
              counsels |-> std.counsels,
              os_file_path |-> DictGet(data, "os_file_path"),
              unprocessed_deal_scrape |-> std]

standardize_scraped_data(data, self) ==
    IF "lead_managers" \notin DOMAIN data \/ data["lead_managers"] = <<>>
    THEN EmptyDict
    ELSE [lead_managers |-> StandardizeItems(self, data["lead_managers"], 1),
          co_managers |-> StandardizeField(self, data, "co_managers"),
          municipal_advisors |-> StandardizeField(self, data, "municipal_advisors"),
          counsels |-> StandardizeField(self, data, "counsels"),
          os_file_path |-> DictGet(data, "os_file_path"),
          unprocessed_deal_scrape |->
              [lead_managers |-> DictGetOr(data, "lead_managers", <<>>),
               co_managers |-> DictGetOr(data, "co_managers", <<>>),
               municipal_advisors |-> DictGetOr(data, "municipal_advisors", <<>>),
               counsels |-> DictGetOr(data, "counsels", <<>>)]]

(***************************************************************************)
(* Inputs of the registry specification.                                   *)
(***************************************************************************)
\* Number of registration calls, add_company or initialize_companies, that
\* callers make in a run.
MaxCalls == 2

CanonicalNames == {"Barclays Capital", "BofA Securities"}

\* name_variations lists offered to add_company: none; a name and the same
\* name with surrounding whitespace; a name next to one that reads as a URL;
\* a name that is also a domain.
NameLists ==
    {<<>>,
     <<"Barclays", "  Barclays ">>,
     <<"  Barclays ", "www.barcap.com">>,
     <<"barclays.com">>}

\* websites lists offered to add_company: none; a bare domain and a full URL
\* of the same domain; a second domain next to a URL that has no host.
SiteLists ==
    {<<>>,
     <<"barclays.com", "HTTPS://www.Barclays.com/us?x=1">>,
     <<"www.bofaml.com", "http://">>}

\* Raw names given to get_canonical_name: None, a known name with
\* surrounding whitespace, an unknown name, a URL that is also offered to
\* add_company as a name variation.
NameInputs == {None, " Barclays  ", "Unknown Firm", "www.barcap.com"}

\* Websites given to get_canonical_name_from_website.
WebsiteInputs == {"", "https://www.barclays.com/us", "unknown.org"}

\* Identifiers given to get_company_info: one that is offered to add_company
\* both as a name variation and as a website, a name, an unknown URL.
InfoInputs == {"barclays.com", " Barclays  ", "https://unknown.org"}

\* All of them, and a few more, for the claims that range over identifiers.
RawInputs ==
    NameInputs \cup WebsiteInputs \cup InfoInputs
        \cup {"Barclays", "bofaml.com", "HTTP://barclays.com"}

(***************************************************************************)
(* The registry specification: on the registry CompanyStandardizer()       *)
(* returns, add_company, initialize_companies and resolver calls in any    *)
(* order.  call records the last call: its name, arguments and result.     *)
(***************************************************************************)
Init ==
    /\ standardizer = CompanyStandardizer
    /\ call = [op |-> "__init__"]
    /\ ncalls = 0
    /\ PipelineIdle
    /\ CallersIdle

AddCompany(canonical_name, name_variations, websites) ==
    /\ ncalls < MaxCalls
    /\ standardizer' = add_company(standardizer, canonical_name, name_variations, websites)
    /\ call' = [op |-> "add_company", canonical_name |-> canonical_name,
                name_variations |-> name_variations, websites |-> websites]
    /\ ncalls' = ncalls + 1
    /\ UNCHANGED <<pipeline_vars, caller_vars>>

\* A caller runs initialize_companies() again on the registry as it is.
InitializeCompanies ==
    /\ ncalls < MaxCalls
    /\ standardizer' = initialize_companies(standardizer)
    /\ call' = [op |-> "initialize_companies"]
    /\ ncalls' = ncalls + 1
    /\ UNCHANGED <<pipeline_vars, caller_vars>>

GetCanonicalName(raw_name) ==
    /\ call' = [op |-> "get_canonical_name", arg |-> raw_name,
                ret |-> get_canonical_name(standardizer, raw_name)]
    /\ UNCHANGED <<standardizer, ncalls>>
    /\ UNCHANGED <<pipeline_vars, caller_vars>>

GetCanonicalNameFromWebsite(website) ==
    /\ call' = [op |-> "get_canonical_name_from_website", arg |-> website,
                ret |-> get_canonical_name_from_website(standardizer, website)]
    /\ UNCHANGED <<standardizer, ncalls>>
    /\ UNCHANGED <<pipeline_vars, caller_vars>>

GetCompanyInfo(identifier) ==
    /\ call' = [op |-> "get_company_info", arg |-> identifier,
                ret |-> get_company_info(standardizer, identifier)]
    /\ UNCHANGED <<standardizer, ncalls>>
    /\ UNCHANGED <<pipeline_vars, caller_vars>>

Next ==
    \/ \E c \in CanonicalNames, n \in NameLists, w \in SiteLists :
           AddCompany(c, n, w)
    \/ InitializeCompanies
    \/ \E raw \in NameInputs : GetCanonicalName(raw)
    \/ \E raw \in WebsiteInputs : GetCanonicalNameFromWebsite(raw)
    \/ \E raw \in InfoInputs : GetCompanyInfo(raw)

Spec == Init /\ [][Next]_vars

(***************************************************************************)
(* Claims about the registry and the resolvers, checked under Spec.        *)
(***************************************************************************)
\* The three prefixes get_canonical_name reads as a URL.
UrlShaped(s) ==
    StartsWith(s, "http://") \/ StartsWith(s, "https://") \/ StartsWith(s, "www.")

\* s with and without surrounding whitespace.
Padded(s) == {s, " " \o s, s \o " ", "  " \o s \o "\t"}

\* The spellings of a registered domain: with or without a scheme, a leading
\* www., a path, a query (after a path, or directly after the host), a
\* trailing slash, in lower or upper case.
Spellings(domain) ==
    LET lower == {scheme \o www \o domain \o rest :
                    scheme \in {"", "http://", "https://"},
                    www \in {"", "www."},
                    rest \in {"", "/", "/us", "/us/", "/us?x=1", "?x=1"}}
    IN  lower \cup {Upper(s) : s \in lower}

\* C1 -- after any sequence of add_company calls, every name variation of
\* every company, with or without surrounding whitespace, resolves through
\* get_canonical_name to that company's canonical name.  Stated for the
\* variations get_canonical_name reads as names (non-empty, not URL-shaped).
C1_VariantsResolve ==
    \A c \in DOMAIN standardizer.companies :
        \A v \in standardizer.companies[c].name_variations :
            (Truthy(v) /\ ~UrlShaped(v)) =>
                \A raw \in Padded(v) : get_canonical_name(standardizer, raw) = c

\* C2 -- every spelling of every website a company was registered with
\* resolves through get_canonical_name_from_website to that company's
\* canonical name.  Stated for the company an add_company call has just
\* registered.
C2_WebsiteSpellingsResolve ==
    call.op = "add_company" =>
        LET c == call.canonical_name
        IN  \A d \in standardizer.companies[c].websites :
                \A raw \in Spellings(d) :
                    get_canonical_name_from_website(standardizer, raw) = c

\* URL-shaped identifiers, among them one that add_company also accepts as a
\* name variation.
UrlInputs ==
    {"www.barcap.com", "www.bofaml.com", "https://www.barclays.com/us", "http://barclays.com",
     "www.barclays.com/", "https://bofaml.com?x=1", "https://unknown.org", "http://", "www."}

\* C3 -- for a raw string that starts with http://, https:// or www.,
\* get_canonical_name answers from the website index alone: the entry of the
\* string's cleaned domain when there is one, None otherwise, whatever the
\* name index holds for that string.  Checked on every call the resolver
\* action makes and, in each registry add_company leaves, on all UrlInputs.
C3_UrlNeverByName ==
    /\ (call.op = "get_canonical_name" /\ call.arg # None /\ UrlShaped(call.arg)) =>
           call.ret = DictGet(standardizer.website_to_canonical, clean_website(call.arg))
    /\ call.op = "add_company" =>
           \A raw \in UrlInputs :
               get_canonical_name(standardizer, raw)
                   = DictGet(standardizer.website_to_canonical, clean_website(raw))

\* C3 witness: a URL-shaped string that is a registered name variation was
\* looked up and got no match.
C3_Witness ==
    /\ call.op = "get_canonical_name"
    /\ call.arg = "www.barcap.com"
    /\ call.arg \in DOMAIN standardizer.name_to_canonical
    /\ call.ret = None

\* Strings that start with a URI scheme or with www., in either letter case.
SchemeInputs ==
    UrlInputs \cup {"HTTP://barclays.com", "Https://www.barclays.com/us",
                    "WWW.barclays.com", "ftp://barclays.com"}

\* C4 -- for every string that starts with a URI scheme or with www.,
\* whatever the scheme and its letter case, get_canonical_name returns what
\* get_canonical_name_from_website returns.
C4_SchemeDelegates ==
    \A raw \in SchemeInputs :
        get_canonical_name(standardizer, raw)
            = get_canonical_name_from_website(standardizer, raw)

\* C5 -- no name variation and no domain belongs to two different companies.
C5_Uniqueness ==
    \A c1, c2 \in DOMAIN standardizer.companies :
        c1 # c2 =>
            /\ standardizer.companies[c1].name_variations
                   \cap standardizer.companies[c2].name_variations = {}
            /\ standardizer.companies[c1].websites
                   \cap standardizer.companies[c2].websites = {}

\* A stored name variation carries no surrounding whitespace.
IsTrimmed(v) ==
    Len(v) = 0 \/ (~IsSpace(SubSeq(v, 1, 1)) /\ ~IsSpace(SubSeq(v, Len(v), Len(v))))

\* A stored domain is non-empty, lower-case, and has no scheme and no path.
IsDomain(d) ==
    /\ Truthy(d)
    /\ \A i \in 1..Len(d) :
           /\ SubSeq(d, i, i) # "/"
           /\ SubSeq(d, i, i) \notin DOMAIN LowerOf

\* C6 -- an add_company(c, variants, urls) call leaves under c exactly the
\* trimmed variants and exactly the non-empty cleaned domains of that call
\* (whatever c held before), and leaves every other company's record as it
\* was.
C6_RegisterStoresExactSets ==
    [][call'.op = "add_company" =>
          LET c == call'.canonical_name
              rec == standardizer'.companies[c]
          IN  /\ DOMAIN standardizer'.companies = (DOMAIN standardizer.companies) \cup {c}
              /\ rec.canonical_name = c
              /\ rec.name_variations = {Strip(n) : n \in Elems(call'.name_variations)}
              /\ \A v \in rec.name_variations : IsTrimmed(v)
              /\ rec.websites =
                     {clean_website(u) : u \in Elems(call'.websites)} \ {"", None}
              /\ \A d \in rec.websites : IsDomain(d)
              /\ \A o \in (DOMAIN standardizer.companies) \ {c} :
                     standardizer'.companies[o] = standardizer.companies[o]]_vars

\* C6 witness: a company was registered again (the name index still holds a
\* variation of its earlier record) with two URLs of one domain, which are
\* stored as one element.
C6_Witness ==
    /\ call.op = "add_company"
    /\ Len(call.websites) = 2
    /\ Cardinality(standardizer.companies[call.canonical_name].websites) = 1
    /\ \E v \in DOMAIN standardizer.name_to_canonical :
           /\ standardizer.name_to_canonical[v] = call.canonical_name
           /\ v \notin standardizer.companies[call.canonical_name].name_variations

\* C7 -- both indexes are derived from the current company table: the name
\* index maps v to c only if v is a current name variation of c, the
\* website index maps d to c only if d is a current website of c.
C7_IndexesDerived ==
    /\ \A v \in DOMAIN standardizer.name_to_canonical :
           v \in standardizer.companies[standardizer.name_to_canonical[v]].name_variations
    /\ \A d \in DOMAIN standardizer.website_to_canonical :
           d \in standardizer.companies[standardizer.website_to_canonical[d]].websites

\* What C8 says get_company_info(id) returns in registry self.
WebsiteFirst(self, id, ret) ==
    LET domain == clean_website(id)
        by_name == get_canonical_name(self, id)
    IN  IF Truthy(id) /\ domain \in DOMAIN self.website_to_canonical
        THEN /\ ret = <<self.companies[self.website_to_canonical[domain]]>>
             /\ ret[1].canonical_name = self.website_to_canonical[domain]
        ELSE IF by_name # None
        THEN /\ ret = <<self.companies[by_name]>>
             /\ ret[1].canonical_name = by_name
        ELSE ret = <<>>

\* C8 -- get_company_info resolves by website first: when the identifier's
\* cleaned domain is in the website index it returns that company, whatever
\* the name index holds; otherwise the company get_canonical_name finds;
\* otherwise None.  A returned company carries the canonical name resolved.
\* Checked on every call the resolver action makes and, in each registry
\* add_company leaves, on all RawInputs.
C8_WebsiteFirst ==
    /\ call.op = "get_company_info" => WebsiteFirst(standardizer, call.arg, call.ret)
    /\ call.op = "add_company" =>
           \A id \in RawInputs :
               WebsiteFirst(standardizer, id, get_company_info(standardizer, id))

\* C8 witness: get_company_info was given an identifier that the name index
\* maps to one company and the website index to another, and returned the
\* company of the website index.
C8_Witness ==
    /\ call.op = "get_company_info"
    /\ call.arg = "barclays.com"
    /\ call.arg \in DOMAIN standardizer.name_to_canonical
    /\ call.arg \in DOMAIN standardizer.website_to_canonical
    /\ standardizer.name_to_canonical[call.arg] # standardizer.website_to_canonical[call.arg]
    /\ call.ret = <<standardizer.companies[standardizer.website_to_canonical[call.arg]]>>

\* The three resolvers.
ResolverOps ==
    {"get_canonical_name", "get_canonical_name_from_website", "get_company_info"}

\* An identifier neither index can resolve: empty or None, or a string whose
\* trimmed form is no key of the name index and whose cleaned domain is no
\* key of the website index.
Unresolvable(self, id) ==
    \/ ~Truthy(id)
    \/ /\ Strip(id) \notin DOMAIN self.name_to_canonical
       /\ clean_website(id) \notin DOMAIN self.website_to_canonical

\* C9 -- a resolver call on an unresolvable identifier returns None (no
\* Company for get_company_info) and leaves the company table and both
\* indexes as they were.
C9_NoMatchIsNone ==
    [][(call'.op \in ResolverOps /\ Unresolvable(standardizer, call'.arg)) =>
          /\ call'.ret = (IF call'.op = "get_company_info" THEN <<>> ELSE None)
          /\ standardizer' = standardizer]_vars

\* C9 witness: an unknown name was looked up in a registry that holds
\* companies, and got None.
C9_Witness ==
    /\ call.op = "get_canonical_name"
    /\ call.arg = "Unknown Firm"
    /\ call.ret = None
    /\ DOMAIN standardizer.name_to_canonical # {}

(***************************************************************************)
(* The record specification: standardize_scraped_data applied to scraped   *)
(* records, against the registry as initialize_companies leaves it.        *)
(***************************************************************************)
\* Marks a key that a scraped record does not have.
Absent == None

DataKeys == {"lead_managers", "co_managers", "municipal_advisors", "counsels", "os_file_path"}

\* The dict holding the keys of slots whose value is not Absent.
DataOf(slots) == [k \in {k \in DataKeys : slots[k] # Absent} |-> slots[k]]

LeadInputs ==
    {Absent, <<>>, <<"">>, <<"Barclays">>, <<"Unknown Firm", "https://www.barclays.com/">>}

CoInputs == {Absent, <<>>, <<"BofA Securities, Inc.", "", "Unknown Co">>, <<" BofA ">>}

AdvisorInputs == {Absent, <<>>, <<"www.unknown.org">>}

CounselInputs == {Absent, <<>>, <<"BARCLAYS", "Barclays">>}

OsPathInputs == {Absent, "os_files/P1.pdf"}

DataInputs ==
    {DataOf([lead_managers |-> lead, co_managers |-> co, municipal_advisors |-> ma,
             counsels |-> bc, os_file_path |-> os]) :
        lead \in LeadInputs, co \in CoInputs, ma \in AdvisorInputs,
        bc \in CounselInputs, os \in OsPathInputs}

InitStd ==
    /\ standardizer = CompanyStandardizer
    /\ call = [op |-> "__init__"]
    /\ ncalls = 0
    /\ PipelineIdle
    /\ CallersIdle

StandardizeScrapedData(data) ==
    /\ call' = [op |-> "standardize_scraped_data", arg |-> data,
                ret |-> standardize_scraped_data(data, standardizer)]
    /\ UNCHANGED <<standardizer, ncalls>>
    /\ UNCHANGED <<pipeline_vars, caller_vars>>

NextStd == \E data \in DataInputs : StandardizeScrapedData(data)

SpecStd == InitStd /\ [][NextStd]_vars

\* C10 -- standardize_scraped_data returns the empty dict whenever
\* lead_managers is absent from the record or is an empty list, whatever the
\* other slots and os_file_path hold.
C10_NoLeadManagersGivesEmpty ==
    (/\ call.op = "standardize_scraped_data"
     /\ ("lead_managers" \notin DOMAIN call.arg \/ Len(call.arg["lead_managers"]) = 0))
        => DOMAIN call.ret = {}

\* C10 witness: a record without lead managers but with co-managers the
\* registry knows and an os_file_path was standardized to the empty dict.
C10_Witness ==
    /\ call.op = "standardize_scraped_data"
    /\ "lead_managers" \in DOMAIN call.arg
    /\ call.arg["lead_managers"] = <<>>
    /\ "co_managers" \in DOMAIN call.arg
    /\ call.arg["co_managers"] = <<" BofA ">>
    /\ "os_file_path" \in DOMAIN call.arg
    /\ DOMAIN call.ret = {}

\* The four slots of a scraped record.
RawSlots == {"lead_managers", "co_managers", "municipal_advisors", "counsels"}

\* A standardize_scraped_data call that returned a standardized record.
Standardized == call.op = "standardize_scraped_data" /\ DOMAIN call.ret # {}

\* C11 -- every non-empty result of standardize_scraped_data has a non-empty
\* lead_managers slot that holds at least one canonical name of the registry.
C11_ResolvedLeadManager ==
    Standardized =>
        /\ Len(call.ret.lead_managers) > 0
        /\ \E i \in 1..Len(call.ret.lead_managers) :
               call.ret.lead_managers[i] \in DOMAIN standardizer.companies

\* What one entry of a slot becomes: its canonical name when the registry
\* has one, the entry itself otherwise.
ImageOf(self, entry) ==
    LET canonical == get_canonical_name(self, entry)
    IN  IF Truthy(canonical) THEN canonical ELSE entry

\* C12 as stated -- in a non-empty result every output slot has the length of
\* the input slot (an absent slot counting as empty) and holds, position by
\* position, the image of the input entry.
C12_ElementwiseImage ==
    Standardized =>
        \A slot \in RawSlots :
            LET in == DictGetOr(call.arg, slot, <<>>)
                out == call.ret[slot]
            IN  /\ Len(out) = Len(in)
                /\ \A i \in 1..Len(in) : out[i] = ImageOf(standardizer, in[i])

\* Positions of the non-empty entries of a list.
Kept(items) == {i \in 1..Len(items) : Truthy(items[i])}

\* C12 -- in a non-empty result every output slot holds the images of the
\* non-empty entries of the input slot, in their order and nothing else: the
\* k-th non-empty input entry is at position k of the output, as its
\* canonical name when the registry has one and verbatim otherwise, and the
\* output is as long as the input has non-empty entries.
C12_NonEmptyEntriesImage ==
    Standardized =>
        \A slot \in RawSlots :
            LET in == DictGetOr(call.arg, slot, <<>>)
                out == call.ret[slot]
            IN  /\ Len(out) = Cardinality(Kept(in))
                /\ \A i \in Kept(in) :
                       out[Cardinality({j \in Kept(in) : j <= i})]
                           = ImageOf(standardizer, in[i])

\* C12 witness: co-managers with a known name, an empty entry and an unknown
\* name were standardized to the canonical name followed by the unknown name.
C12_Witness ==
    /\ Standardized
    /\ "co_managers" \in DOMAIN call.arg
    /\ call.arg["co_managers"] = <<"BofA Securities, Inc.", "", "Unknown Co">>
    /\ call.ret.co_managers = <<"BofA Securities", "Unknown Co">>
    /\ call.ret.lead_managers = <<"Unknown Firm", "Barclays Capital">>

\* C13 -- a non-empty result nests, under unprocessed_deal_scrape, exactly
\* the four slots of the record as they were passed in, an absent slot as
\* the empty list, whatever the entries resolved to.
C13_RawRecordNested ==
    Standardized =>
        /\ DOMAIN call.ret.unprocessed_deal_scrape = RawSlots
        /\ \A slot \in RawSlots :
               call.ret.unprocessed_deal_scrape[slot]
                   = (IF slot \in DOMAIN call.arg THEN call.arg[slot] ELSE <<>>)

\* C13 witness: a record with resolved, unresolved and empty entries and an
\* absent slot was standardized; the nested record differs from the
\* standardized lists and shows the absent slot as empty.
C13_Witness ==
    /\ Standardized
    /\ "municipal_advisors" \notin DOMAIN call.arg
    /\ call.ret.unprocessed_deal_scrape.municipal_advisors = <<>>
    /\ call.ret.unprocessed_deal_scrape.lead_managers
           = <<"Unknown Firm", "https://www.barclays.com/">>
    /\ call.ret.lead_managers = <<"Unknown Firm", "Barclays Capital">>
    /\ call.ret.unprocessed_deal_scrape.co_managers
           = <<"BofA Securities, Inc.", "", "Unknown Co">>
    /\ call.ret.co_managers = <<"BofA Securities", "Unknown Co">>

(***************************************************************************)
(* The fee extractor (src/src/spacy/find_underwriter_discount.py).  A PDF  *)
(* is the sequence of the texts of its pages.  The compiled patterns are   *)
(* regular expressions, matched as re matches them: by backtracking, the   *)
(* alternatives of each node tried in priority order.                      *)
(***************************************************************************)
\* Nodes of a regular expression.
Lit(str) == [op |-> "lit", str |-> str]
Cls(name) == [op |-> "cls", name |-> name]
Cat(nodes) == [op |-> "cat", nodes |-> nodes]
Alt(nodes) == [op |-> "alt", nodes |-> nodes]
\* x?
Opt(node) == [op |-> "opt", node |-> node]
\* x* and x*?
Star(node) == [op |-> "star", node |-> node, greedy |-> TRUE]
LazyStar(node) == [op |-> "star", node |-> node, greedy |-> FALSE]
\* x+ and x+?
Plus(node) == Cat(<<node, Star(node)>>)
LazyPlus(node) == Cat(<<node, LazyStar(node)>>)
\* (x), the capturing group
Group(node) == [op |-> "group", node |-> node]

DigitChars == "0123456789"

IsDigit(ch) == \E i \in 1..Len(DigitChars) : SubSeq(DigitChars, i, i) = ch

\* The character classes of the patterns: \s, \d, [\s\S] (and . under
\* re.DOTALL), [^$], and the apostrophe class of the straight apostrophe
\* and the right single quotation mark.
InClass(name, ch) ==
    CASE name = "\\s" -> IsSpace(ch)
      [] name = "\\d" -> IsDigit(ch)
      [] name = "[\\s\\S]" -> TRUE
      [] name = "[^$]" -> ch # "$"
      [] name = "[']" -> ch = "'" \/ ch = RightQuote

\* A sequence without the later repetitions of its elements.
RECURSIVE DedupFrom(_, _, _)
DedupFrom(states, k, seen) ==
    IF k > Len(states) THEN <<>>
    ELSE IF states[k] \in seen THEN DedupFrom(states, k + 1, seen)
    ELSE <<states[k]>> \o DedupFrom(states, k + 1, seen \cup {states[k]})

Dedup(states) == DedupFrom(states, 1, {})

\* The first position from pos on whose character is not in the class, the
\* position after the text when there is none.
RunEnd(name, text, pos) ==
    LET stops == {j \in pos..(Len(text) + 1) :
                     j = Len(text) + 1 \/ ~InClass(name, SubSeq(text, j, j))}
    IN  CHOOSE j \in stops : \A k \in stops : j <= k

\* Match(node, text, st): the ways node matches text from the state st (a
\* position and the text captured so far), in the order backtracking tries
\* them, each as the state it leaves.  Literals are compared under
\* re.IGNORECASE: the patterns spell them in lower case.
RECURSIVE Match(_, _, _)
RECURSIVE MatchAll(_, _, _, _, _)
RECURSIVE MatchCat(_, _, _, _)
RECURSIVE MatchAlt(_, _, _, _)

\* node matched from each of states[lo..hi], in order.
MatchAll(node, text, states, lo, hi) ==
    IF lo > hi THEN <<>>
    ELSE IF lo = hi THEN Match(node, text, states[lo])
    ELSE LET mid == (lo + hi) \div 2
         IN  MatchAll(node, text, states, lo, mid) \o MatchAll(node, text, states, mid + 1, hi)

MatchCat(nodes, k, text, states) ==
    IF k > Len(nodes) \/ states = <<>> THEN states
    ELSE MatchCat(nodes, k + 1, text, MatchAll(nodes[k], text, states, 1, Len(states)))

MatchAlt(nodes, k, text, st) ==
    IF k > Len(nodes) THEN <<>>
    ELSE Match(nodes[k], text, st) \o MatchAlt(nodes, k + 1, text, st)

Match(node, text, st) ==
    CASE node.op = "lit" ->
            LET n == Len(node.str)
            IN  IF /\ st.pos + n - 1 <= Len(text)
                   /\ \A i \in 1..n :
                          LowerChar(SubSeq(text, st.pos + i - 1, st.pos + i - 1))
                              = SubSeq(node.str, i, i)
                THEN <<[st EXCEPT !.pos = @ + n]>>
                ELSE <<>>
      [] node.op = "cls" ->
            IF st.pos <= Len(text) /\ InClass(node.name, SubSeq(text, st.pos, st.pos))
            THEN <<[st EXCEPT !.pos = @ + 1]>>
            ELSE <<>>
      [] node.op = "cat" -> MatchCat(node.nodes, 1, text, <<st>>)
      [] node.op = "alt" -> MatchAlt(node.nodes, 1, text, st)
      [] node.op = "opt" -> Match(node.node, text, st) \o <<st>>
      [] node.op = "star" /\ node.node.op = "cls" ->
            \* a run of characters of one class: every prefix of the run,
            \* the longest first when greedy, the shortest first when lazy
            LET end == RunEnd(node.node.name, text, st.pos)
            IN  [k \in 1..(end - st.pos + 1) |->
                    [st EXCEPT !.pos = IF node.greedy THEN end - k + 1 ELSE st.pos + k - 1]]
      [] node.op = "star" /\ node.node.op # "cls" ->
            LET once == SelectSeq(Match(node.node, text, st), LAMBDA r : r.pos > st.pos)
                more == MatchAll(node, text, once, 1, Len(once))
            IN  Dedup(IF node.greedy THEN more \o <<st>> ELSE <<st>> \o more)
      [] node.op = "group" ->
            LET inner == Match(node.node, text, st)
            IN  [k \in 1..Len(inner) |->
                    [inner[k] EXCEPT !.cap = SubSeq(text, st.pos, inner[k].pos - 1)]]

\* pattern.finditer(text), from position start on: the group(1) of each
\* match, leftmost first, each search resuming where the last match ended.
RECURSIVE FindIterFrom(_, _, _)
FindIterFrom(pattern, text, start) ==
    LET starts == {i \in start..Len(text) :
                      Match(pattern, text, [pos |-> i, cap |-> None]) # <<>>}
    IN  IF starts = {} THEN <<>>
        ELSE LET first == CHOOSE i \in starts : \A j \in starts : i <= j
                 m == Match(pattern, text, [pos |-> first, cap |-> None])[1]
             IN  <<m.cap>> \o FindIterFrom(pattern, text,
                                           IF m.pos > first THEN m.pos ELSE first + 1)

finditer(pattern, text) == FindIterFrom(pattern, text, 1)

\* (?:underwriting|underwriter|purchaser)
Keywords == Alt(<<Lit("underwriting"), Lit("underwriter"), Lit("purchaser")>>)

\* (?:s|[']s|s[']?)?
Possessive ==
    Opt(Alt(<<Lit("s"),
              Cat(<<Cls("[']"), Lit("s")>>),
              Cat(<<Lit("s"), Opt(Cls("[']"))>>)>>))

\* \$(\d+(?:,?\d+)*(?:\.\d+)?)
DollarNumber ==
    Cat(<<Lit("$"),
          Group(Cat(<<Plus(Cls("\\d")),
                      Star(Cat(<<Opt(Lit(",")), Plus(Cls("\\d"))>>)),
                      Opt(Cat(<<Lit("."), Plus(Cls("\\d"))>>))>>))>>)

\* Pattern 1: "underwriting discount ... of $123.45"
of_pattern ==
    Cat(<<Keywords, Possessive, Plus(Cls("\\s")),
          Alt(<<Lit("compensation"), Lit("discount"), Lit("fee"), Lit("expenses")>>),
          Plus(Cls("\\s")),
          Opt(Cat(<<LazyStar(Cls("[^$]")), Plus(Cls("\\s"))>>)),
          Lit("of"), Plus(Cls("\\s")),
          DollarNumber, Opt(Lit(","))>>)

\* Pattern 2: "discount ... is $123.45" or "discount ... will be $123.45"
is_pattern ==
    Cat(<<Keywords, Possessive, Star(Cls("\\s")),
          Alt(<<Lit("compensation"), Lit("discount"), Lit("fee"), Lit("expenses")>>),
          LazyStar(Cls("[\\s\\S]")),
          Alt(<<Lit("is"), Cat(<<Lit("will"), Plus(Cls("\\s")), Lit("be")>>)>>),
          Star(Cls("\\s")),
          DollarNumber, Opt(Lit(","))>>)

\* Pattern 3: "will [also] pay the underwriter(s)/purchaser(s) a fee ... $123.45"
will_pay_pattern ==
    Cat(<<Lit("will"), Plus(Cls("\\s")),
          Opt(Cat(<<Lit("also"), Plus(Cls("\\s"))>>)),
          Lit("pay"), Plus(Cls("\\s")), Lit("the"), Plus(Cls("\\s")),
          Alt(<<Cat(<<Lit("underwriter"), Opt(Lit("s"))>>),
                Cat(<<Lit("purchaser"), Opt(Lit("s"))>>)>>),
          Plus(Cls("\\s")), Lit("a"), Plus(Cls("\\s")), Lit("fee"),
          LazyStar(Cls("[\\s\\S]")),
          DollarNumber, Opt(Lit(","))>>)

\* Pattern 4: "$123.45 of underwriter's discount"
before_discount_pattern ==
    Cat(<<DollarNumber,
          Plus(Cls("\\s")), Lit("of"), Plus(Cls("\\s")),
          Keywords, Possessive, Plus(Cls("\\s")),
          Alt(<<Lit("discount"), Lit("fees"), Lit("expenses")>>)>>)

\* Pattern 5: "$123.45 as compensation for underwriting"; the number is
\* \$(\d+(?:,?\d+)*(?:\.\d+?)), its decimal part not optional.
compensation_pattern ==
    Cat(<<Lit("$"),
          Group(Cat(<<Plus(Cls("\\d")),
                      Star(Cat(<<Opt(Lit(",")), Plus(Cls("\\d"))>>)),
                      Cat(<<Lit("."), LazyPlus(Cls("\\d"))>>)>>)),
          Star(Alt(<<Cls("\\s"), Lit("\n")>>)),
          Lit("as"), Plus(Cls("\\s")), Lit("compensation"), Plus(Cls("\\s")), Lit("for"),
          Star(Alt(<<Cls("\\s"), Lit("\n")>>)),
          Alt(<<Lit("underwriting"), Lit("purchasing")>>)>>)

patterns ==
    <<of_pattern, is_pattern, will_pay_pattern, before_discount_pattern,
      compensation_pattern>>

\* str.replace(",", "")
RECURSIVE RemoveCommas(_)
RemoveCommas(s) ==
    IF Len(s) = 0 THEN ""
    ELSE (IF SubSeq(s, 1, 1) = "," THEN "" ELSE SubSeq(s, 1, 1))
             \o RemoveCommas(SubSeq(s, 2, Len(s)))

(***************************************************************************)
(* Numbers.  float and sum work on IEEE 754 binary64 values, so that an   *)
(* amount is the double nearest to its decimal string and every addition   *)
(* is rounded to 53 significant bits, ties to even.  A natural number is   *)
(* the sequence of its digits in base 2^15, least significant first,       *)
(* without a leading zero (0 is <<>>).  A double is the pair <<m, e>>      *)
(* standing for m * 2^e, m odd, so that equal doubles are equal pairs;     *)
(* 0.0 is <<<<>>, 0>> and inf is <<<<1>>, 1024>>.  The amounts are never   *)
(* negative: no pattern matches a sign.                                    *)
(***************************************************************************)
MantissaBits == 53

\* The exponent of the least subnormal double, 2^-1074.
MinExponent == 0 - 1074

\* Doubles are below 2^1024.
MaxExponent == 1024

LimbBits == 15

Zero == <<<<>>, 0>>

Infinity == <<<<1>>, MaxExponent>>

RECURSIVE PowerOfTwo(_)
PowerOfTwo(k) == IF k = 0 THEN 1 ELSE 2 * PowerOfTwo(k - 1)

Base == PowerOfTwo(LimbBits)

\* n zeros.
ZeroLimbs(n) == [i \in 1..n |-> 0]

\* a without its leading zeros.
Trimmed(a) ==
    IF \A i \in 1..Len(a) : a[i] = 0 THEN <<>>
    ELSE SubSeq(a, 1, CHOOSE i \in 1..Len(a) : a[i] # 0 /\ \A j \in (i + 1)..Len(a) : a[j] = 0)

\* The digits lo to hi of a * factor + carry, for a factor and a carry of at
\* most Base, and the carry they leave: the lower half of the digits, then
\* the upper half with the carry of the lower.
RECURSIVE MultiplyDigits(_, _, _, _, _)
MultiplyDigits(a, lo, hi, factor, carry) ==
    IF lo > hi THEN <<<<>>, carry>>
    ELSE IF lo = hi
    THEN LET t == a[lo] * factor + carry
         IN  <<<<t % Base>>, t \div Base>>
    ELSE LET mid == (lo + hi) \div 2
             lower == MultiplyDigits(a, lo, mid, factor, carry)
             upper == IF lower[2] = 0 THEN MultiplyDigits(a, mid + 1, hi, factor, 0)
                      ELSE MultiplyDigits(a, mid + 1, hi, factor, lower[2])
         IN  <<lower[1] \o upper[1], upper[2]>>

\* a * factor + carry
MultiplyAdd(a, factor, carry) ==
    LET digits == MultiplyDigits(a, 1, Len(a), factor, carry)
    IN  IF digits[2] = 0 THEN digits[1] ELSE Append(digits[1], digits[2])

\* The digits lo to hi of a + b + carry, and the carry they leave.
RECURSIVE AddDigits(_, _, _, _, _)
AddDigits(a, b, lo, hi, carry) ==
    IF lo > hi THEN <<<<>>, carry>>
    ELSE IF lo = hi
    THEN LET t == (IF lo <= Len(a) THEN a[lo] ELSE 0) + (IF lo <= Len(b) THEN b[lo] ELSE 0)
                      + carry
         IN  <<<<t % Base>>, t \div Base>>
    ELSE LET mid == (lo + hi) \div 2
             lower == AddDigits(a, b, lo, mid, carry)
             upper == IF lower[2] = 0 THEN AddDigits(a, b, mid + 1, hi, 0)
                      ELSE AddDigits(a, b, mid + 1, hi, lower[2])
         IN  <<lower[1] \o upper[1], upper[2]>>

\* a + b + carry
AddLimbs(a, b, carry) ==
    LET digits == AddDigits(a, b, 1, IF Len(a) > Len(b) THEN Len(a) ELSE Len(b), carry)
    IN  IF digits[2] = 0 THEN digits[1] ELSE Append(digits[1], digits[2])

\* Long division of the digits lo to hi of a by a divisor of at most Base,
\* r the remainder of the digits above them: the upper half of the digits,
\* then the lower half with the remainder of the upper.
\* <<the digits of the quotient, remainder>>
RECURSIVE LongDivision(_, _, _, _, _)
LongDivision(a, lo, hi, divisor, r) ==
    IF lo > hi THEN <<<<>>, r>>
    ELSE IF lo = hi
    THEN LET t == r * Base + a[lo]
         IN  <<<<t \div divisor>>, t % divisor>>
    ELSE LET mid == (lo + hi) \div 2
             upper == LongDivision(a, mid + 1, hi, divisor, r)
             lower == IF upper[2] = 0 THEN LongDivision(a, lo, mid, divisor, 0)
                      ELSE LongDivision(a, lo, mid, divisor, upper[2])
         IN  <<lower[1] \o upper[1], lower[2]>>

\* <<a \div divisor, a % divisor>>
Divide(a, divisor) ==
    LET qr == LongDivision(a, 1, Len(a), divisor, 0)
    IN  <<Trimmed(qr[1]), qr[2]>>

\* 10^k, for the k that keep it below Base.
RECURSIVE PowerOfTen(_)
PowerOfTen(k) == IF k = 0 THEN 1 ELSE 10 * PowerOfTen(k - 1)

\* a * 10^k, four decimal digits at a time.
RECURSIVE TimesPowerOfTen(_, _)
TimesPowerOfTen(a, k) ==
    IF a = <<>> THEN <<>>
    ELSE IF k <= 4 THEN MultiplyAdd(a, PowerOfTen(k), 0)
    ELSE TimesPowerOfTen(TimesPowerOfTen(a, k \div 2), k - k \div 2)

\* <<a \div 10^k, whether a remainder or the given one was left>>, four
\* decimal digits at a time.
RECURSIVE DivideByPowerOfTen(_, _, _)
DivideByPowerOfTen(a, k, inexact) ==
    IF a = <<>> THEN <<a, inexact>>
    ELSE IF k <= 4
    THEN LET qr == Divide(a, PowerOfTen(k))
         IN  <<qr[1], inexact \/ qr[2] # 0>>
    ELSE LET first == DivideByPowerOfTen(a, k \div 2, inexact)
         IN  IF first[2] THEN DivideByPowerOfTen(first[1], k - k \div 2, TRUE)
             ELSE DivideByPowerOfTen(first[1], k - k \div 2, FALSE)

\* a * 2^k
ShiftLeft(a, k) ==
    IF a = <<>> THEN <<>>
    ELSE ZeroLimbs(k \div LimbBits) \o MultiplyAdd(a, PowerOfTwo(k % LimbBits), 0)

\* <<a \div 2^k, whether a remainder or the given one was left>>
ShiftRight(a, k, inexact) ==
    LET limbs == k \div LimbBits
        dropped == SubSeq(a, 1, limbs)
        qr == Divide(SubSeq(a, limbs + 1, Len(a)), PowerOfTwo(k % LimbBits))
    IN  <<qr[1], inexact \/ qr[2] # 0 \/ \E i \in 1..Len(dropped) : dropped[i] # 0>>

\* The number of binary digits of a number below Base.
RECURSIVE BitLength(_)
BitLength(n) == IF n = 0 THEN 0 ELSE 1 + BitLength(n \div 2)

\* The number of binary digits of a.
Bits(a) == IF a = <<>> THEN 0 ELSE LimbBits * (Len(a) - 1) + BitLength(a[Len(a)])

\* The number of zeros that end the binary digits of a number.
RECURSIVE TrailingZeros(_)
TrailingZeros(n) == IF n % 2 = 1 THEN 0 ELSE 1 + TrailingZeros(n \div 2)

\* The value of a string of digits: that of its first half, times ten to
\* the length of the second half, plus that of its second half.
RECURSIVE DigitsValue(_)
DigitsValue(s) ==
    IF Len(s) = 0 THEN <<>>
    ELSE IF Len(s) = 1
    THEN MultiplyAdd(<<>>, 10, CHOOSE d \in 0..9 : SubSeq(DigitChars, d + 1, d + 1) = s)
    ELSE LET half == Len(s) \div 2
             first == DigitsValue(SubSeq(s, 1, half))
             second == DigitsValue(SubSeq(s, half + 1, Len(s)))
         IN  IF first = <<>> THEN second
             ELSE AddLimbs(TimesPowerOfTen(first, Len(s) - half), second, 0)

\* m * 2^e as a pair with m odd; inf from 2^1024 on.
Normalized(x) ==
    IF x[1] = <<>> THEN Zero
    ELSE IF Bits(x[1]) + x[2] > MaxExponent THEN Infinity
    ELSE LET m == x[1]
             low == CHOOSE i \in 1..Len(m) : m[i] # 0 /\ \A j \in 1..(i - 1) : m[j] = 0
             zeros == TrailingZeros(m[low])
         IN  <<Divide(SubSeq(m, low, Len(m)), PowerOfTwo(zeros))[1],
               x[2] + LimbBits * (low - 1) + zeros>>

\* The double nearest to (q + f) * 2^e, where 0 <= f < 1 and f > 0 exactly
\* when inexact: the binary digits below the 53rd, or below 2^-1074, are
\* dropped and the rest is rounded to nearest, ties to even.
RoundToDouble(q, inexact, e) ==
    LET over == Bits(q) - MantissaBits
        under == MinExponent - e
        drop == IF over > under THEN over ELSE under
    IN  IF drop <= 0 THEN Normalized(<<q, e>>)
        ELSE LET upper == ShiftRight(q, drop - 1, inexact)
                 halved == Divide(upper[1], 2)
                 kept == halved[1]
                 odd == kept # <<>> /\ kept[1] % 2 = 1
                 up == halved[2] = 1 /\ (upper[2] \/ odd)
             IN  Normalized(<<AddLimbs(kept, <<>>, IF up THEN 1 ELSE 0), e + drop>>)

\* Position of the first "." of s, 0 when it has none.
DotAt(s) ==
    IF \A i \in 1..Len(s) : SubSeq(s, i, i) # "." THEN 0
    ELSE CHOOSE i \in 1..Len(s) :
             SubSeq(s, i, i) = "." /\ \A j \in 1..(i - 1) : SubSeq(s, j, j) # "."

\* float(amount_str) for digits with an optional decimal part, which is all
\* group(1) can hold once the commas are removed: the digits n and the
\* count k of decimals give n / 10^k, computed as n * 2^s \div 10^k with s
\* large enough to leave 55 binary digits or more.
float(amount_str) ==
    LET dot == DotAt(amount_str)
        whole == IF dot = 0 THEN amount_str ELSE SubSeq(amount_str, 1, dot - 1)
        decimals == IF dot = 0 THEN "" ELSE SubSeq(amount_str, dot + 1, Len(amount_str))
        n == DigitsValue(whole \o decimals)
        k == Len(decimals)
        wanted == MantissaBits + 2 + 4 * k - Bits(n)
        s == IF wanted > 0 THEN wanted ELSE 0
        quotient == DivideByPowerOfTen(ShiftLeft(n, s), k, FALSE)
    IN  IF n = <<>> THEN Zero ELSE RoundToDouble(quotient[1], quotient[2], 0 - s)

\* x + y
Add(x, y) ==
    IF x = Zero THEN y
    ELSE IF y = Zero THEN x
    ELSE LET e == IF x[2] < y[2] THEN x[2] ELSE y[2]
         IN  RoundToDouble(AddLimbs(ShiftLeft(x[1], x[2] - e), ShiftLeft(y[1], y[2] - e), 0),
                           FALSE, e)

\* sum(amounts): the additions are made from left to right, starting from
\* 0, each of them rounded.
RECURSIVE sum(_)
sum(amounts) ==
    IF amounts = <<>> THEN Zero
    ELSE Add(sum(SubSeq(amounts, 1, Len(amounts) - 1)), amounts[Len(amounts)])

\* The inner loop over the matches of one pattern: every group(1), commas
\* removed, as a number.
MatchAmounts(pattern, text) ==
    LET found == finditer(pattern, text)
    IN  [k \in 1..Len(found) |-> float(RemoveCommas(found[k]))]

\* The loop over the patterns as it would be if it ended at the first
\* pattern that matches on the page.
RECURSIVE PageAmounts_first_match(_, _)
PageAmounts_first_match(text, k) ==
    IF k > Len(patterns) THEN <<>>
    ELSE IF MatchAmounts(patterns[k], text) # <<>> THEN MatchAmounts(patterns[k], text)
    ELSE PageAmounts_first_match(text, k + 1)

\* for pattern in patterns: ... amounts.append(amount), on one page, from
\* the k-th pattern on.
RECURSIVE PageAmounts(_, _)
PageAmounts(text, k) ==
    IF k > Len(patterns) THEN <<>>
    ELSE MatchAmounts(patterns[k], text) \o PageAmounts(text, k + 1)

\* for page in doc: ..., from the p-th page on.
RECURSIVE DocAmounts(_, _)
DocAmounts(doc, p) ==
    IF p > Len(doc) THEN <<>>
    ELSE PageAmounts(doc[p], 1) \o DocAmounts(doc, p + 1)

\* The result as it would be if the total were the sum in every case.
FeeResult_always_sum(amounts) ==
    [total |-> sum(amounts),
     scrape_breakdown |->
         [amounts |-> amounts,
          are_amounts_identical |-> Cardinality({amounts[i] : i \in 1..Len(amounts)}) = 1,
          is_dupe_review_completed |-> ~(Len(amounts) > 1)]]

\* The sum of the elements of a set of numbers.
RECURSIVE SumOfSet(_)
SumOfSet(numbers) ==
    IF numbers = {} THEN Zero
    ELSE LET x == CHOOSE x \in numbers : TRUE
         IN  Add(x, SumOfSet(numbers \ {x}))

\* The result as it would be if the total were the sum of the distinct
\* amounts.
FeeResult_sum_distinct(amounts) ==
    LET distinct == {amounts[i] : i \in 1..Len(amounts)}
    IN  [total |-> IF Cardinality(distinct) = 1 THEN amounts[1] ELSE SumOfSet(distinct),
         scrape_breakdown |->
             [amounts |-> amounts,
              are_amounts_identical |-> Cardinality(distinct) = 1,
              is_dupe_review_completed |-> ~(Len(amounts) > 1)]]

\* The result as it would be if identical candidates needed no review.
FeeResult_review_when_differing(amounts) ==
    LET are_identical == Cardinality({amounts[i] : i \in 1..Len(amounts)}) = 1
        total == IF are_identical THEN amounts[1] ELSE sum(amounts)
        needs_review == ~are_identical
    IN  [total |-> total,
         scrape_breakdown |->
             [amounts |-> amounts,
              are_amounts_identical |-> are_identical,
              is_dupe_review_completed |-> ~needs_review]]

\* The result built from a non-empty list of amounts.
FeeResult(amounts) ==
    LET are_identical == Cardinality({amounts[i] : i \in 1..Len(amounts)}) = 1
        total == IF are_identical THEN amounts[1] ELSE sum(amounts)
        needs_review == Len(amounts) > 1
    IN  [total |-> total,
         scrape_breakdown |->
             [amounts |-> amounts,
              are_amounts_identical |-> are_identical,
              is_dupe_review_completed |-> ~needs_review]]

\* The extractor as it would be if a document without any match gave a
\* result with an empty breakdown.
extract_underwriting_discount_from_pdf_empty_result(doc) ==
    LET amounts == DocAmounts(doc, 1)
    IN  IF amounts = <<>>
        THEN <<[total |-> None,
                scrape_breakdown |-> [amounts |-> <<>>,
                                      are_amounts_identical |-> FALSE,
                                      is_dupe_review_completed |-> TRUE]]>>
        ELSE <<FeeResult(amounts)>>

\* extract_underwriting_discount_from_pdf on an opened document: <<>> for
\* None, <<result>> for a result.
extract_underwriting_discount_from_pdf(doc) ==
    LET amounts == DocAmounts(doc, 1)
    IN  IF amounts = <<>> THEN <<>> ELSE <<FeeResult(amounts)>>

(***************************************************************************)
(* The extractor specification: one PDF, drawn from the documents of up to *)
(* MaxPages pages, is run through extract_underwriting_discount_from_pdf.  *)
(***************************************************************************)
MaxPages == 2

\* Page texts: no fee language; a match of pattern 1, of pattern 3, of
\* pattern 5; patterns 1 and 4 on different amounts; one sentence matched by
\* patterns 1 and 4; pattern 1 matching twice; a pattern 2 match ahead of a
\* pattern 1 match; two amounts that are no doubles, and whose sum is
\* rounded.
PageTexts ==
    {"The Bonds are dated May 1, 2024. Price $99.50",
     "Underwriter's discount of $1,000.00.",
     "The Issuer will pay the Underwriters a fee of $50,000.00",
     "$500.50 as compensation for underwriting",
     "purchaser's fee of $100,000.00\nplus $1,000.00 of underwriting expenses",
     "underwriters' discount of $7,500 of underwriting fees",
     "underwriting fee of $250.25 and purchaser fee of $1,000.00",
     "The underwriting fee is $1,000.00. Purchaser's discount of $250.25",
     "underwriting fee of $1.10 and purchaser fee of $2.20"}

RECURSIVE PdfsOf(_)
PdfsOf(n) ==
    IF n = 0 THEN {<<>>}
    ELSE PdfsOf(n - 1) \cup {Append(doc, text) : doc \in {d \in PdfsOf(n - 1) : Len(d) = n - 1},
                                                 text \in PageTexts}

PdfInputs == PdfsOf(MaxPages)

InitFee ==
    /\ standardizer = CompanyStandardizer
    /\ call = [op |-> "__init__"]
    /\ ncalls = 0
    /\ pdf \in PdfInputs
    /\ BatchIdle
    /\ CallersIdle

ExtractUnderwritingDiscountFromPdf ==
    /\ call.op = "__init__"
    /\ call' = [op |-> "extract_underwriting_discount_from_pdf",
                ret |-> extract_underwriting_discount_from_pdf(pdf)]
    /\ UNCHANGED <<standardizer, ncalls, pdf, batch_vars, caller_vars>>

NextFee == ExtractUnderwritingDiscountFromPdf

SpecFee == InitFee /\ [][NextFee]_vars

\* An extraction that returned a result.
Extracted == call.op = "extract_underwriting_discount_from_pdf" /\ call.ret # <<>>

\* All entries of a list of numbers are equal.
AllEqual(amounts) ==
    \A i, j \in 1..Len(amounts) : amounts[i] = amounts[j]

\* The entries of a list from the i-th on, each added once to the number
\* so far, in the order of the list.
RECURSIVE SumWithMultiplicity(_, _, _)
SumWithMultiplicity(amounts, i, so_far) ==
    IF i > Len(amounts) THEN so_far
    ELSE SumWithMultiplicity(amounts, i + 1, Add(so_far, amounts[i]))

\* C14 -- in every fee result are_amounts_identical is true exactly when
\* all candidates are equal numbers; then total is that number, however
\* many candidates there are; otherwise total is the sum of all candidates,
\* as sum gives it for doubles.
C14_TotalSingleOrSum ==
    Extracted =>
        LET result == call.ret[1]
            amounts == result.scrape_breakdown.amounts
        IN  /\ Len(amounts) > 0
            /\ result.scrape_breakdown.are_amounts_identical = AllEqual(amounts)
            /\ AllEqual(amounts) => result.total = amounts[1]
            /\ ~AllEqual(amounts) => result.total = sum(amounts)

\* C14 witness: a sentence matched by patterns 1 and 4 gave the same amount
\* twice, reported once as the total.
C14_Witness ==
    /\ Extracted
    /\ call.ret[1].scrape_breakdown.amounts = <<float("7500"), float("7500")>>
    /\ call.ret[1].scrape_breakdown.are_amounts_identical
    /\ call.ret[1].total = float("7500")

\* C15 -- when the candidates are not all equal, total is the sum of the
\* candidate list counted with multiplicity, every entry added once in the
\* order of the list, are_amounts_identical is false and
\* is_dupe_review_completed is false.
C15_DifferingCandidatesSummed ==
    (Extracted /\ ~AllEqual(call.ret[1].scrape_breakdown.amounts)) =>
        LET result == call.ret[1]
        IN  /\ result.total = SumWithMultiplicity(result.scrape_breakdown.amounts, 1, Zero)
            /\ ~result.scrape_breakdown.are_amounts_identical
            /\ ~result.scrape_breakdown.is_dupe_review_completed

\* C15 witness: candidates [a, b, a] over two pages gave the total 2a + b.
C15_Witness ==
    /\ Extracted
    /\ call.ret[1].scrape_breakdown.amounts
           = <<float("1000.00"), float("250.25"), float("1000.00")>>
    /\ call.ret[1].total = float("2250.25")
    /\ ~call.ret[1].scrape_breakdown.is_dupe_review_completed

\* The concatenation of a list of lists, in order.
RECURSIVE Flatten(_)
Flatten(lists) ==
    IF lists = <<>> THEN <<>> ELSE Head(lists) \o Flatten(Tail(lists))

\* C17 -- the candidate list of an extraction is, page after page, pattern
\* after pattern in the order 1 to 5, every match of that pattern on that
\* page in the order of the matches' positions; an extraction returns no
\* result only when that list is empty.
C17_CascadeCollectsAll ==
    call.op = "extract_underwriting_discount_from_pdf" =>
        LET matches == [p \in 1..Len(pdf) |->
                           Flatten([k \in 1..Len(patterns) |->
                                       MatchAmounts(patterns[k], pdf[p])])]
            amounts == IF call.ret = <<>> THEN <<>>
                       ELSE call.ret[1].scrape_breakdown.amounts
        IN  amounts = Flatten(matches)

\* C17 witness: page 1 has a pattern 2 match ahead of a pattern 1 match,
\* page 2 has one sentence matched by patterns 1 and 4; the candidates are
\* the pattern 1 match, the pattern 2 match, then the amount of page 2 twice.
C17_Witness ==
    /\ Extracted
    /\ pdf = <<"The underwriting fee is $1,000.00. Purchaser's discount of $250.25",
               "underwriters' discount of $7,500 of underwriting fees">>
    /\ call.ret[1].scrape_breakdown.amounts
           = <<float("250.25"), float("1000.00"), float("7500"), float("7500")>>

(***************************************************************************)
(* The batch processor (src/src/spacy_find_ud/main.py) with the override   *)
(* table (src/src/spacy_find_ud/overrides.py).  The deals collection is a  *)
(* function from document ids to the documents' dicts, ordered by id; a    *)
(* document snapshot is the pair of an id and the dict read by the query.  *)
(***************************************************************************)
\* d.update(other)
DictUpdate(d, other) ==
    [k \in (DOMAIN d) \cup (DOMAIN other) |-> IF k \in DOMAIN other THEN other[k] ELSE d[k]]

create_base_record(doc, path, os_type) ==
    [doc_id |-> doc.id,
     obligor |-> DictGetOr(doc.data, "series_name_obligor", "Unknown"),
     os_type |-> os_type,
     path |-> path,
     url |-> DictGetOr(doc.data, "url", "N/A")]

create_failure_record(reason, base_fields) ==
    [doc_id |-> base_fields.doc_id,
     obligor |-> base_fields.obligor,
     os_type |-> base_fields.os_type,
     path |-> base_fields.path,
     url |-> base_fields.url,
     reason |-> reason]

\* The dict display spreads base_fields, "path" included, before it pops
\* "path" into "pdf_path"; base_fields never holds "overridden_fields", so
\* override_changes is the default {}.
create_success_record(old_fee, new_fee, base_fields, discount_result, table) ==
    [doc_id |-> base_fields.doc_id,
     obligor |-> base_fields.obligor,
     os_type |-> base_fields.os_type,
     path |-> base_fields.path,
     url |-> base_fields.url,
     pdf_path |-> base_fields.path,
     old_fee |-> old_fee,
     new_fee |-> new_fee,
     multiple_fees |-> Len(discount_result.scrape_breakdown.amounts) > 1,
     had_override |-> IF base_fields.url # "N/A" THEN base_fields.url \in DOMAIN table
                      ELSE FALSE,
     override_changes |-> EmptyDict,
     amounts |-> discount_result.scrape_breakdown.amounts]

\* The override block as it would be if the change log were taken after
\* the fields are overwritten.
ApplyOverrides_log_after(table, stored) ==
    LET url == DictGetOr(stored, "url", "N/A")
    IN  IF url \in DOMAIN table
        THEN LET patched == DictUpdate(stored, table[url])
             IN  [url |-> url,
                  deal_data |-> patched,
                  override_changes |-> [field \in DOMAIN table[url] |-> DictGet(patched, field)],
                  warning |-> [field \in DOMAIN table[url] |->
                                  [old_val |-> DictGet(patched, field),
                                   new_val |-> table[url][field]]]]
        ELSE [url |-> url, deal_data |-> stored, override_changes |-> EmptyDict,
              warning |-> EmptyDict]

\* The override block as it would be if a document without a url took the
\* override of every entry of the table.
ApplyOverrides_no_url_matches(table, stored) ==
    LET url == DictGetOr(stored, "url", "N/A")
        entry == IF url \in DOMAIN table THEN table[url]
                 ELSE IF url = "N/A" /\ DOMAIN table # {}
                 THEN table[CHOOSE u \in DOMAIN table : TRUE]
                 ELSE EmptyDict
    IN  [url |-> url,
         deal_data |-> DictUpdate(stored, entry),
         override_changes |-> [field \in DOMAIN entry |-> DictGet(stored, field)],
         warning |-> [field \in DOMAIN entry |->
                         [old_val |-> DictGet(stored, field), new_val |-> entry[field]]]]

\* The override block as it would be if the entry's values were written to
\* a copy that the rest of the iteration does not read.
ApplyOverrides_on_copy(table, stored) ==
    LET url == DictGetOr(stored, "url", "N/A")
    IN  IF url \in DOMAIN table
        THEN [url |-> url,
              deal_data |-> stored,
              override_changes |-> [field \in DOMAIN table[url] |-> DictGet(stored, field)],
              warning |-> [field \in DOMAIN table[url] |->
                              [old_val |-> DictGet(stored, field),
                               new_val |-> table[url][field]]]]
        ELSE [url |-> url, deal_data |-> stored, override_changes |-> EmptyDict,
              warning |-> EmptyDict]

\* The override block: the url read from the document, the patched
\* deal_data, the override_changes dict of the fields' values before the
\* override (None for a field the document does not have), and the fields
\* of the warning that is logged, each with its old and new value.
ApplyOverrides(table, stored) ==
    LET url == DictGetOr(stored, "url", "N/A")
    IN  IF url \in DOMAIN table
        THEN [url |-> url,
              deal_data |-> DictUpdate(stored, table[url]),
              override_changes |-> [field \in DOMAIN table[url] |-> DictGet(stored, field)],
              warning |-> [field \in DOMAIN table[url] |->
                              [old_val |-> DictGet(stored, field),
                               new_val |-> table[url][field]]]]
        ELSE [url |-> url, deal_data |-> stored, override_changes |-> EmptyDict,
              warning |-> EmptyDict]

\* The files on disk: the pages of the PDF at each path.
Files ==
    [path \in {"os_files/P1.pdf", "os_files/P2.pdf", "os_files/P3.pdf"} |->
        CASE path = "os_files/P1.pdf" -> <<"Underwriter's discount of $1,000.00.">>
          [] path = "os_files/P2.pdf" -> <<"The Bonds are dated May 1, 2024. Price $99.50">>
          [] path = "os_files/P3.pdf" ->
                <<"The underwriting fee is $1,000.00. Purchaser's discount of $250.25">>]

\* What extract_underwriting_discount_from_pdf returns for each file.
Extracted_from == [path \in DOMAIN Files |-> extract_underwriting_discount_from_pdf(Files[path])]

\* The call extract_underwriting_discount_from_pdf(os_file_path): the
\* result, or the exception fitz.open raises for a path without a file.
ExtractFromPath(path) ==
    IF path \in DOMAIN Files
    THEN [raised |-> FALSE, ret |-> Extracted_from[path], error |-> None]
    ELSE [raised |-> TRUE, ret |-> <<>>, error |-> "no such file: '" \o path \o "'"]

\* str(e) of the exception a failed doc.reference.update raises.
UpdateError == "503 The service is currently unavailable."

\* The body of the loop over the documents of a batch, for one document
\* snapshot: the results after it, the dict written to the document by
\* doc.reference.update ({} when nothing is written), and what the body
\* read and decided.  update_ok tells whether doc.reference.update returns
\* or raises.  The branch for a result that is not a dict with a total is
\* left out: extract_underwriting_discount_from_pdf has no such result.
HandleDocument(doc, table, reprocess, res, update_ok) ==
    LET counted == [res EXCEPT !.total_documents = @ + 1]
        o == ApplyOverrides(table, doc.data)
        deal_data == o.deal_data
        os_type == DictGet(deal_data, "os_type")
        fee_total == DictGet(deal_data, "underwriters_fee_total")
        os_file_path == DictGet(deal_data, "os_file_path")
        handled(outcome, newres, extraction, written) ==
            [results |-> newres,
             write |-> written,
             trace |-> [op |-> "process_document",
                        doc |-> doc,
                        url |-> o.url,
                        deal_data |-> deal_data,
                        override_changes |-> o.override_changes,
                        warning |-> o.warning,
                        os_type |-> os_type,
                        os_file_path |-> os_file_path,
                        outcome |-> outcome,
                        discount_result |-> extraction,
                        update_ok |-> update_ok]]
        \* except Exception as e: ...
        except(before, reason, extraction) ==
            handled("exception",
                    [before EXCEPT
                        !.failed_documents =
                            Append(@, create_failure_record(
                                          reason, create_base_record(doc, os_file_path, os_type))),
                        !.processing_failed = @ + 1],
                    extraction, EmptyDict)
        \* The try block, from the result of the extraction on.
        try(extraction) ==
            IF extraction.raised
            THEN except(counted, extraction.error, <<>>)
            ELSE IF extraction.ret # <<>>
            THEN LET discount_result == extraction.ret[1]
                     discount_value == discount_result.total
                     old_value == fee_total
                     update_data ==
                         [previous_underwriters_fee_total |-> old_value,
                          underwriters_fee_total |-> discount_value,
                          underwriter_fee |-> discount_result,
                          unprocessed_pdf_scrape_before_override |->
                              [overridden_fields |-> o.override_changes,
                               original_url |-> o.url]]
                 IN  IF ~update_ok
                     THEN except(counted, UpdateError, extraction.ret)
                     ELSE handled("success",
                                  [counted EXCEPT
                                      !.successfully_processed = @ + 1,
                                      !.successful_documents =
                                          Append(@, create_success_record(
                                                        old_value, discount_value,
                                                        create_base_record(
                                                            doc, os_file_path, os_type),
                                                        discount_result, table))],
                                  extraction.ret, update_data)
            ELSE LET recorded ==
                         [counted EXCEPT
                             !.failed_documents =
                                 Append(@, create_failure_record(
                                               "No discount found in PDF",
                                               create_base_record(
                                                   doc, os_file_path, os_type)))]
                 IN  IF ~update_ok
                     THEN except(recorded, UpdateError, <<>>)
                     ELSE handled("no_discount",
                                  [recorded EXCEPT !.processing_failed = @ + 1],
                                  <<>>,
                                  [underwriter_fee |->
                                      [total |-> None, scrape_success |-> FALSE]])
    IN  IF fee_total # None /\ ~reprocess
        THEN handled("already_processed",
                     [counted EXCEPT !.already_processed = @ + 1], <<>>, EmptyDict)
        ELSE IF ~Truthy(os_file_path)
        THEN handled("missing_path",
                     [counted EXCEPT
                         !.missing_path = @ + 1,
                         !.failed_documents =
                             Append(@, create_failure_record(
                                           "No PDF path found",
                                           create_base_record(doc, "Missing", None)))],
                     <<>>, EmptyDict)
        ELSE try(ExtractFromPath(os_file_path))

(***************************************************************************)
(* The batch specification: process_pdf_discounts over a deals collection  *)
(* of up to MaxDeals documents, read in batches of BATCH_SIZE.             *)
(***************************************************************************)
MaxDeals == 3

\* Documents per query.  The source reads 50 at a time; the model reads
\* fewer, so that its collections fall short of, fill and exceed a batch.
BATCH_SIZE == 2

\* Document ids, in the order the collection is read.
DocIds == <<"d1", "d2", "d3", "d4", "d5">>

\* The url overrides.py has an entry for, and two other urls.
OverrideUrl == "https://www.munios.com/munios-notice.aspx?e=602FW"
SecondUrl == "https://www.munios.com/munios-notice.aspx?e=7A1QX"
OtherUrl == "https://www.munios.com/munios-notice.aspx?e=9ZZZZ"

\* The url of an EMMA page, and the Official Statement link found on it.
CusipUrl == "https://emma.msrb.org/Security/Details/A1B2C3"
EmmaOsUrl == "https://emma.msrb.org/P11712345.pdf"

\* The override table of overrides.py, which both processors import.
OverrideTables ==
    {[url \in {OverrideUrl} |-> [os_type |-> "COMMERCIAL PAPER OFFERING MEMORANDUM"]]}

\* Stored documents: one without url and path, the first of its cusip
\* links empty; one under the override with an os_type and a PDF that
\* states a fee; one under the override without os_type, with the fee and
\* the previous fee of earlier runs, a cusip link and a PDF that states no
\* fee; one as an earlier reprocessing run left it after it extracted its
\* fee, with a PDF that now states two amounts; one whose PDF is not on
\* disk.
DealInputs ==
    {[series_name_obligor |-> "City of Austin", cusip_links |-> <<"">>,
      cusip_link |-> CusipUrl],
     [url |-> OverrideUrl, os_type |-> "OFFICIAL STATEMENT",
      os_file_path |-> "os_files/P1.pdf", series_name_obligor |-> "City of Austin"],
     [url |-> OverrideUrl, os_file_path |-> "os_files/P2.pdf",
      underwriters_fee_total |-> float("250.25"),
      previous_underwriters_fee_total |-> float("1000"),
      cusip_link |-> CusipUrl],
     [url |-> SecondUrl, os_type |-> "OFFICIAL STATEMENT",
      os_file_path |-> "os_files/P3.pdf", series_name_obligor |-> "Travis County",
      previous_underwriters_fee_total |-> float("250.25"),
      underwriters_fee_total |-> float("1000"),
      underwriter_fee |->
          [total |-> float("1000"),
           scrape_breakdown |-> [amounts |-> <<float("1000")>>,
                                 are_amounts_identical |-> TRUE,
                                 is_dupe_review_completed |-> TRUE]],
      unprocessed_pdf_scrape_before_override |->
          [overridden_fields |-> EmptyDict, original_url |-> SecondUrl]],
     [url |-> OtherUrl, os_file_path |-> "os_files/gone.pdf"]}

\* The collections of n documents.
Collections(n) ==
    {[id \in {DocIds[k] : k \in 1..n} |->
         datas[CHOOSE k \in 1..n : DocIds[k] = id]] : datas \in [1..n -> DealInputs]}

\* The query as it would be if it left out the document that follows last.
QueryDeals_skip_one(collection, last) ==
    LET after == IF last = None THEN 0
                 ELSE 1 + CHOOSE k \in 1..Len(DocIds) : DocIds[k] = last
        ids == SelectSeq(DocIds, LAMBDA id :
                   /\ id \in DOMAIN collection
                   /\ (CHOOSE k \in 1..Len(DocIds) : DocIds[k] = id) > after)
        n == IF Len(ids) < BATCH_SIZE THEN Len(ids) ELSE BATCH_SIZE
    IN  [k \in 1..n |-> [id |-> ids[k], data |-> collection[ids[k]]]]

\* db.collection("deals").limit(BATCH_SIZE), started after the document last
\* when there is one: snapshots of the next documents in id order.
QueryDeals(collection, last) ==
    LET after == IF last = None THEN 0 ELSE CHOOSE k \in 1..Len(DocIds) : DocIds[k] = last
        ids == SelectSeq(DocIds, LAMBDA id :
                   /\ id \in DOMAIN collection
                   /\ (CHOOSE k \in 1..Len(DocIds) : DocIds[k] = id) > after)
        n == IF Len(ids) < BATCH_SIZE THEN Len(ids) ELSE BATCH_SIZE
    IN  [k \in 1..n |-> [id |-> ids[k], data |-> collection[ids[k]]]]

InitBatch ==
    /\ standardizer = CompanyStandardizer
    /\ call = [op |-> "__init__"]
    /\ ncalls = 0
    /\ pdf = <<>>
    /\ overrides \in OverrideTables
    /\ reprocess_processed \in BOOLEAN
    /\ \E n \in 0..MaxDeals : deals \in Collections(n)
    /\ results = NewResults
    /\ pc = "query"
    /\ last_doc = None
    /\ doc_list = <<>>
    /\ doc_index = 0
    /\ other_updates = <<>>
    /\ CallersIdle

\* The head of the while loop: the next batch is read; an empty batch ends
\* the loop and process_pdf_discounts returns results.  When the query
\* raises, the handler of the outer try takes over.
FetchBatch(query_ok) ==
    /\ pc = "query"
    /\ IF ~query_ok
       THEN /\ pc' = "fatal"
            /\ call' = [op |-> "fatal_error"]
            /\ UNCHANGED <<doc_list, doc_index>>
       ELSE LET fetched == QueryDeals(deals, last_doc)
            IN  IF fetched = <<>>
                THEN /\ pc' = "returned"
                     /\ call' = [op |-> "return"]
                     /\ doc_list' = fetched
                     /\ doc_index' = 0
                ELSE /\ pc' = "loop"
                     /\ call' = [op |-> "fetch_batch"]
                     /\ doc_list' = fetched
                     /\ doc_index' = 1
    /\ UNCHANGED <<standardizer, ncalls, caller_vars, pdf, overrides,
                   reprocess_processed, other_updates, deals, results,
                   last_doc>>

\* The handler of the outer try, once its time.sleep(30) is over: it calls
\* firestore.client(), logs whether that raised, and returns results.
FatalErrorHandler(reconnect_ok) ==
    /\ pc = "fatal"
    /\ pc' = "returned"
    /\ call' = [op |-> "return_after_fatal_error", reconnected |-> reconnect_ok]
    /\ UNCHANGED <<standardizer, ncalls, caller_vars, pdf, overrides,
                   reprocess_processed, other_updates, deals, results,
                   last_doc, doc_list, doc_index>>

\* The iteration as it would be if the reprocess switch were not consulted
\* and every document were processed.
ProcessDocument_ignore_switch(update_ok, h) ==
    /\ pc = "loop"
    /\ doc_index <= Len(doc_list)
    /\ LET doc == doc_list[doc_index]
           own == HandleDocument(doc, overrides, TRUE, results, update_ok)
       IN  /\ results' = own.results
           /\ deals' = IF DOMAIN own.write = {} THEN deals
                       ELSE [deals EXCEPT ![doc.id] = DictUpdate(@, own.write)]
           /\ call' = own.trace
    /\ doc_index' = doc_index + 1
    /\ UNCHANGED <<standardizer, ncalls, caller_vars, pdf, overrides,
                   reprocess_processed, other_updates, pc, last_doc,
                   doc_list>>

\* The iteration as it would be if the except handler recorded the failure
\* without counting it.
ProcessDocument_failure_uncounted(update_ok, h) ==
    /\ pc = "loop"
    /\ doc_index <= Len(doc_list)
    /\ LET doc == doc_list[doc_index]
           own == HandleDocument(doc, overrides, reprocess_processed, results, update_ok)
       IN  /\ results' = IF own.trace.outcome = "exception"
                         THEN [own.results EXCEPT !.processing_failed = @ - 1]
                         ELSE own.results
           /\ deals' = IF DOMAIN own.write = {} THEN deals
                       ELSE [deals EXCEPT ![doc.id] = DictUpdate(@, own.write)]
           /\ call' = own.trace
    /\ doc_index' = doc_index + 1
    /\ UNCHANGED <<standardizer, ncalls, caller_vars, pdf, overrides,
                   reprocess_processed, other_updates, pc, last_doc,
                   doc_list>>

\* The iteration as it would be if a document without discount also had
\* its stored total cleared.
ProcessDocument_clear_total(update_ok, h) ==
    /\ pc = "loop"
    /\ doc_index <= Len(doc_list)
    /\ LET doc == doc_list[doc_index]
           own == HandleDocument(doc, overrides, reprocess_processed, results, update_ok)
           write == IF own.trace.outcome = "no_discount"
                    THEN DictUpdate(own.write, [underwriters_fee_total |-> None])
                    ELSE own.write
       IN  /\ results' = own.results
           /\ deals' = IF DOMAIN write = {} THEN deals
                       ELSE [deals EXCEPT ![doc.id] = DictUpdate(@, write)]
           /\ call' = own.trace
    /\ doc_index' = doc_index + 1
    /\ UNCHANGED <<standardizer, ncalls, caller_vars, pdf, overrides,
                   reprocess_processed, other_updates, pc, last_doc,
                   doc_list>>

\* One iteration of the loop over the batch, h being what the loop body
\* does with the document at doc_index: HandleDocument of it with the
\* switch and the results of the run.
ProcessDocument(update_ok, h) ==
    /\ pc = "loop"
    /\ doc_index <= Len(doc_list)
    /\ LET doc == doc_list[doc_index]
       IN  /\ results' = h.results
           /\ deals' = IF DOMAIN h.write = {} THEN deals
                       ELSE [deals EXCEPT ![doc.id] = DictUpdate(@, h.write)]
           /\ call' = h.trace
    /\ doc_index' = doc_index + 1
    /\ UNCHANGED <<standardizer, ncalls, caller_vars, pdf, overrides,
                   reprocess_processed, other_updates, pc, last_doc,
                   doc_list>>

\* The end of a batch: last_doc = doc_list[-1], then db = firestore.client();
\* when that raises, the except clause logs and sleeps.
EndBatch(refresh_ok) ==
    /\ pc = "loop"
    /\ doc_index > Len(doc_list)
    /\ last_doc' = doc_list[Len(doc_list)].id
    /\ pc' = IF refresh_ok THEN "query" ELSE "refresh"
    /\ call' = [op |-> "end_batch"]
    /\ UNCHANGED <<standardizer, ncalls, caller_vars, pdf, overrides,
                   reprocess_processed, other_updates, deals, results,
                   doc_list, doc_index>>

\* The except clause of the connection refresh, once its time.sleep(10) is
\* over: db = firestore.client() again, outside any inner try, so that a
\* second failure is a fatal error.
RefreshConnection(retry_ok) ==
    /\ pc = "refresh"
    /\ pc' = IF retry_ok THEN "query" ELSE "fatal"
    /\ call' = [op |-> IF retry_ok THEN "refresh_connection" ELSE "fatal_error"]
    /\ UNCHANGED <<standardizer, ncalls, caller_vars, pdf, overrides,
                   reprocess_processed, other_updates, deals, results,
                   last_doc, doc_list, doc_index>>

(***************************************************************************)
(* The other programs of the repository that write to the deals            *)
(* collection.  They run on their own, so their steps may come between any *)
(* two steps of process_pdf_discounts.                                     *)
(***************************************************************************)

\* Updates of the store by the other programs during a run of
\* process_pdf_discounts.  other_updates lists them: the program, the
\* document, whether the snapshot it decided on was stale, and its switch
\* (RERUN_ALL, REPROCESS_SWITCH).
MaxOtherUpdates == 1

\* Whether run_emma_os_scraper processes every document again.
RERUN_ALL == FALSE

\* The cusip url run_emma_os_scraper finds in a document: the first of a
\* non-empty cusip_links, else a non-empty cusip_link, else the first value
\* of a non-empty cusips (here the list of its values), None when there is
\* none.  The first link or value found is taken as it is, empty or not.
cusip_url(doc_data) ==
    IF "cusip_links" \in DOMAIN doc_data /\ doc_data.cusip_links # <<>>
    THEN doc_data.cusip_links[1]
    ELSE IF "cusip_link" \in DOMAIN doc_data /\ doc_data.cusip_link # ""
    THEN doc_data.cusip_link
    ELSE IF "cusips" \in DOMAIN doc_data /\ doc_data.cusips # <<>>
    THEN doc_data.cusips[1]
    ELSE None

\* sub in s: whether s holds sub.
In(sub, s) ==
    \E i \in 1..(Len(s) - Len(sub) + 1) : SubSeq(s, i, i + Len(sub) - 1) = sub

\* process_emma_page on an EMMA page as the driver shows it: error is the
\* text of the error element, None when the page has no such element (then
\* find_element raises); os is the href of the Official Statement link,
\* None when no link shows within the wait (then until raises).  Every
\* exception is caught and gives None; a relative href is completed.
process_emma_page(page) ==
    IF page.error = None THEN None
    ELSE IF In("no records exist for this CUSIP", page.error) THEN None
    ELSE IF page.os = None THEN None
    ELSE IF ~Truthy(page.os) THEN None
    ELSE IF ~(StartsWith(page.os, "http://") \/ StartsWith(page.os, "https://"))
    THEN "https://emma.msrb.org" \o page.os
    ELSE page.os

\* EMMA pages: without error element; with the error of an unknown cusip;
\* without link; with a link without href; with a relative and with a full
\* href.
EmmaPages ==
    {[error |-> None, os |-> "/P11712345.pdf"],
     [error |-> "Sorry, no records exist for this CUSIP.", os |-> None],
     [error |-> "", os |-> None],
     [error |-> "", os |-> ""],
     [error |-> "", os |-> "/P11712345.pdf"],
     [error |-> "", os |-> EmmaOsUrl]}

\* d without the key.
Without(d, key) == [k \in DOMAIN d \ {key} |-> d[k]]

\* The snapshots of a stored document that a run of the scraper may hold
\* when its loop comes to the document: what its batch query read, which
\* is the document as stored now or, when emma_os_url has been written
\* since the query, the document without it.  Of a snapshot the loop reads
\* emma_os_url and the cusip fields only, and no program changes a cusip
\* field.
Snapshots(stored) == {stored, Without(stored, "emma_os_url")}

\* The loop body of run_emma_os_scraper for the document id, where it
\* comes to doc.reference.update; doc_data is the snapshot of the document
\* from the batch query and page the EMMA page of its cusip url.  The
\* snapshot decides: with emma_os_url in it (RERUN_ALL being False), or
\* with a cusip url that is None or empty, the loop goes on to the next
\* document before any page is fetched; so it does, after the waits for the
\* page, when process_emma_page gives no link.  Else the update writes
\* emma_os_url to the document as stored by then, whatever it holds.  An
\* update that raises writes nothing: the handler of the batch waits and
\* the batch is queried again.
UpdateEmmaOsUrl(id, doc_data, page) ==
    /\ id \in DOMAIN deals
    /\ Len(other_updates) < MaxOtherUpdates
    /\ ~(~RERUN_ALL /\ "emma_os_url" \in DOMAIN doc_data)
    /\ Truthy(cusip_url(doc_data))
    /\ Truthy(process_emma_page(page))
    /\ deals' = [deals EXCEPT
                    ![id] = DictUpdate(@, [emma_os_url |-> process_emma_page(page)])]
    /\ other_updates' = Append(other_updates,
                               [program |-> "run_emma_os_scraper", id |-> id,
                                stale |-> DOMAIN doc_data # DOMAIN deals[id],
                                switch |-> RERUN_ALL])
    /\ UNCHANGED <<standardizer, call, ncalls, caller_vars, pdf, overrides,
                   reprocess_processed, results, pc, last_doc,
                   doc_list, doc_index>>

\* The switch process_pdf_discounts.py runs its process_pdf_discounts with.
REPROCESS_SWITCH == TRUE

\* The document a batch query of another run of a processor may have read
\* where the store now holds stored: the document as it is or, for a stale
\* snapshot, the document with the fee it had before the last successful
\* extraction was written, which that update stored as
\* previous_underwriters_fee_total (None for no fee).  Of a snapshot the
\* loop body reads the url, the fields of its override,
\* underwriters_fee_total and os_file_path, and of these only
\* underwriters_fee_total is ever written.
FeeSnapshot(stored, stale) ==
    IF ~stale \/ "previous_underwriters_fee_total" \notin DOMAIN stored
    THEN stored
    ELSE IF stored.previous_underwriters_fee_total = None
    THEN Without(stored, "underwriters_fee_total")
    ELSE DictUpdate(stored, [underwriters_fee_total |->
                                stored.previous_underwriters_fee_total])

\* The loop body of process_pdf_discounts of process_pdf_discounts.py, the
\* second processor of the repository, where it comes to one of its two
\* doc.reference.update calls; the snapshot of the document from its batch
\* query is stale or not, and h is what the loop body does with that
\* snapshot.  The body is that of main.py under the same override table: a
\* document it skips, one without path and one whose extraction raises are
\* not written, and an update that raises writes nothing.  The update goes
\* to the document as stored by then.
ProcessPdfDiscounts(id, stale, h) ==
    /\ id \in DOMAIN deals
    /\ Len(other_updates) < MaxOtherUpdates
    /\ stale => "previous_underwriters_fee_total" \in DOMAIN deals[id]
    /\ DOMAIN h.write # {}
    /\ deals' = [deals EXCEPT ![id] = DictUpdate(@, h.write)]
    /\ other_updates' = Append(other_updates,
                               [program |-> "process_pdf_discounts", id |-> id,
                                stale |-> stale, switch |-> REPROCESS_SWITCH])
    /\ UNCHANGED <<standardizer, call, ncalls, caller_vars, pdf, overrides,
                   reprocess_processed, results, pc, last_doc,
                   doc_list, doc_index>>

\* What the loop body of main.py does with the document at doc_index.
MainLoopBody(update_ok) ==
    HandleDocument(doc_list[doc_index], overrides, reprocess_processed, results, update_ok)

\* A step of the loop body that the two processors share: of main.py on
\* the document at doc_index, with the switch and the results of the run,
\* or of process_pdf_discounts.py on a document of the store, with its own
\* switch and results and an update that returns.
LoopBody ==
    \E main \in BOOLEAN :
        \E update_ok \in IF main THEN BOOLEAN ELSE {TRUE},
           id \in IF main THEN {None} ELSE DOMAIN deals,
           stale \in IF main THEN {FALSE} ELSE BOOLEAN :
            LET h == HandleDocument(
                         IF main THEN doc_list[doc_index]
                         ELSE [id |-> id, data |-> FeeSnapshot(deals[id], stale)],
                         overrides,
                         IF main THEN reprocess_processed ELSE REPROCESS_SWITCH,
                         IF main THEN results ELSE NewResults,
                         update_ok)
            IN  IF main THEN ProcessDocument(update_ok, h)
                ELSE ProcessPdfDiscounts(id, stale, h)

\* The loop body of main() of the scraper for one deal: scrape_deal_info is
\* called with the keyword should_download_os, which it does not take, so
\* the call raises TypeError; the except clause of the loop logs it and goes
\* on to the next deal.  db.collection("deals").document() and
\* doc_ref.set(deal) are not reached, and the collection stays as it is.
ScrapeDeal == UNCHANGED vars

\* The steps of run_emma_os_scraper.
EmmaOsScraper ==
    \E id \in DOMAIN deals, page \in EmmaPages :
        \E doc_data \in Snapshots(deals[id]) : UpdateEmmaOsUrl(id, doc_data, page)

NextBatch ==
    \/ \E query_ok \in BOOLEAN : FetchBatch(query_ok)
    \/ LoopBody
    \/ \E refresh_ok \in BOOLEAN : EndBatch(refresh_ok)
    \/ \E retry_ok \in BOOLEAN : RefreshConnection(retry_ok)
    \/ \E reconnect_ok \in BOOLEAN : FatalErrorHandler(reconnect_ok)
    \/ EmmaOsScraper
    \/ ScrapeDeal

SpecBatch == InitBatch /\ [][NextBatch]_vars

\* The steps of process_pdf_discounts of main.py in a run in which no fatal
\* error occurs: every query returns, and a connection refresh that fails
\* succeeds when tried again.
ProcessorNoFatal ==
    \/ FetchBatch(TRUE)
    \/ \E update_ok \in BOOLEAN : ProcessDocument(update_ok, MainLoopBody(update_ok))
    \/ \E refresh_ok \in BOOLEAN : EndBatch(refresh_ok)
    \/ RefreshConnection(TRUE)

\* The steps of such a run and of the other programs.
NextBatchNoFatal ==
    \/ FetchBatch(TRUE)
    \/ LoopBody
    \/ \E refresh_ok \in BOOLEAN : EndBatch(refresh_ok)
    \/ RefreshConnection(TRUE)
    \/ EmmaOsScraper
    \/ ScrapeDeal

\* process_pdf_discounts runs on: the function is sequential code, and
\* each of its steps is taken once it is reached.  Nothing is assumed of
\* the other programs.
SpecBatchRuns == InitBatch /\ [][NextBatchNoFatal]_vars /\ WF_vars(ProcessorNoFatal)

\* The files in which no pattern matches on any page.
NoMatchFiles == {path \in DOMAIN Files : DocAmounts(Files[path], 1) = <<>>}

\* A step of the loop that reaches the extraction of a file without any
\* match.
NoMatchStep ==
    /\ pc = "loop"
    /\ doc_index' = doc_index + 1
    /\ call'.op = "process_document"
    /\ call'.outcome \notin {"already_processed", "missing_path"}
    /\ call'.os_file_path \in NoMatchFiles

\* C16: when no pattern matches on any page of a document's PDF, the
\* extractor returns nothing rather than a result with an empty breakdown,
\* and the batch processor appends a failure record for the document with
\* reason 'No discount found in PDF', counts the document once more under
\* processing_failed and not under successfully_processed, and, when the
\* store takes the update, leaves the document with
\* underwriter_fee = {total: None, scrape_success: False}.
C16_NoMatchRecordedAsFailure ==
    [][NoMatchStep =>
        LET id == call'.doc.id
            n == Len(results.failed_documents)
        IN  /\ call'.discount_result = <<>>
            /\ Len(results'.failed_documents) > n
            /\ results'.failed_documents[n + 1].doc_id = id
            /\ results'.failed_documents[n + 1].reason = "No discount found in PDF"
            /\ results'.processing_failed = results.processing_failed + 1
            /\ results'.successfully_processed = results.successfully_processed
            /\ results'.successful_documents = results.successful_documents
            /\ call'.update_ok =>
                  /\ "underwriter_fee" \in DOMAIN deals'[id]
                  /\ deals'[id].underwriter_fee = [total |-> None, scrape_success |-> FALSE]
                  /\ Len(results'.failed_documents) = n + 1]_vars

\* A document whose PDF states no fee has been processed: it is in
\* failed_documents with the reason, counted as failed, and stored with the
\* failed-scrape marker.
C16_Witness ==
    /\ call.op = "process_document"
    /\ call.outcome = "no_discount"
    /\ call.os_file_path = "os_files/P2.pdf"
    /\ Extracted_from["os_files/P2.pdf"] = <<>>
    /\ results.processing_failed >= 1
    /\ results.successfully_processed = 0
    /\ results.failed_documents[Len(results.failed_documents)].reason
          = "No discount found in PDF"
    /\ deals[call.doc.id].underwriter_fee = [total |-> None, scrape_success |-> FALSE]

\* The document read by the last iteration has a url of the override table.
UrlInTable(doc) == "url" \in DOMAIN doc.data /\ doc.data.url \in DOMAIN overrides

\* C18: for a document whose url is not a key of the override table, a
\* document without url included, the override block leaves every field as
\* stored and the change log empty: nothing is logged, override_changes is
\* {}, and the audit written on success has no overridden field.
C18_NoOverrideNoChange ==
    (call.op = "process_document" /\ ~UrlInTable(call.doc)) =>
        /\ DOMAIN call.deal_data = DOMAIN call.doc.data
        /\ \A field \in DOMAIN call.doc.data : call.doc.data[field] = call.deal_data[field]
        /\ DOMAIN call.override_changes = {}
        /\ DOMAIN call.warning = {}
        /\ call.outcome = "success" =>
              DOMAIN deals[call.doc.id].unprocessed_pdf_scrape_before_override.overridden_fields
                  = {}

\* A document without url has gone through the override block under a
\* table that has entries.
C18_Witness ==
    /\ call.op = "process_document"
    /\ "url" \notin DOMAIN call.doc.data
    /\ DOMAIN overrides # {}
    /\ call.deal_data = call.doc.data
    /\ DOMAIN call.override_changes = {}

\* C19: for a document whose url is a key of the override table, every
\* field of the entry has the entry's value in the patched record, every
\* other field is as stored, and the change log names each overridden
\* field with its value before the override (None when the document had no
\* such field) and its value after it.
C19_OverridePatchesAndLogs ==
    (call.op = "process_document" /\ UrlInTable(call.doc)) =>
        LET entry == overrides[call.doc.data.url]
            stored == call.doc.data
        IN  /\ DOMAIN call.deal_data = DOMAIN stored \cup DOMAIN entry
            /\ \A field \in DOMAIN entry : call.deal_data[field] = entry[field]
            /\ \A field \in DOMAIN stored \ DOMAIN entry :
                  stored[field] = call.deal_data[field]
            /\ DOMAIN call.override_changes = DOMAIN entry
            /\ DOMAIN call.warning = DOMAIN entry
            /\ \A field \in DOMAIN entry :
                  /\ DictGet(stored, field) = call.override_changes[field]
                  /\ DictGet(stored, field) = call.warning[field].old_val
                  /\ call.warning[field].new_val = entry[field]

\* Two overrides have been applied and logged: one to a field the document
\* had, with its stored value as the old value, and one to a field the
\* document did not have, with None as the old value.
C19_Witness ==
    /\ call.op = "process_document"
    /\ UrlInTable(call.doc)
    /\ call.doc.data.url = OverrideUrl
    /\ "os_type" \notin DOMAIN call.doc.data
    /\ call.warning["os_type"].old_val = None
    /\ call.deal_data["os_type"] = "COMMERCIAL PAPER OFFERING MEMORANDUM"
    /\ \E id \in DOMAIN deals :
          /\ "unprocessed_pdf_scrape_before_override" \in DOMAIN deals[id]
          /\ LET logged == deals[id].unprocessed_pdf_scrape_before_override.overridden_fields
             IN  /\ "os_type" \in DOMAIN logged
                 /\ logged["os_type"] = "OFFICIAL STATEMENT"

\* The document of the last iteration after its overrides.
PostOverride(doc) ==
    IF UrlInTable(doc) THEN DictUpdate(doc.data, overrides[doc.data.url]) ELSE doc.data

\* The record the last iteration appended for its document: the last of
\* successful_documents on success, the last of failed_documents on a
\* failure.
LastRecord ==
    IF call.outcome = "success"
    THEN results.successful_documents[Len(results.successful_documents)]
    ELSE results.failed_documents[Len(results.failed_documents)]

\* C20: every read an iteration makes after the override block sees the
\* value after the override: the os_type, the fee of the already-processed
\* check, the os_file_path, and the url and obligor of the record appended
\* to successful_documents or failed_documents.
C20_ReadsSeePostOverride ==
    call.op = "process_document" =>
        LET post == PostOverride(call.doc)
        IN  /\ call.os_type = DictGet(post, "os_type")
            /\ (call.outcome = "already_processed") <=>
                  (DictGet(post, "underwriters_fee_total") # None /\ ~reprocess_processed)
            /\ call.outcome # "already_processed" =>
                  /\ call.os_file_path = DictGet(post, "os_file_path")
                  /\ LastRecord.doc_id = call.doc.id
                  /\ LastRecord.url = DictGetOr(post, "url", "N/A")
                  /\ LastRecord.obligor = DictGetOr(post, "series_name_obligor", "Unknown")

\* A document stored with os_type "OFFICIAL STATEMENT" under the url of the
\* override has been processed: the iteration read the os_type of the
\* override, and the success record has the document's url and obligor.
C20_Witness ==
    /\ call.op = "process_document"
    /\ UrlInTable(call.doc)
    /\ DictGet(call.doc.data, "os_type") = "OFFICIAL STATEMENT"
    /\ call.os_type = "COMMERCIAL PAPER OFFERING MEMORANDUM"
    /\ call.os_file_path = "os_files/P1.pdf"
    /\ call.outcome = "success"
    /\ LastRecord.doc_id = call.doc.id
    /\ LastRecord.url = OverrideUrl
    /\ LastRecord.obligor = "City of Austin"

\* C21: for every document an override was applied to and a result was
\* written back for (a fee extracted, or no discount found), the data
\* written holds the document's change log, and the success record of the
\* run summary lists the overridden fields.
C21_ChangeLogTravels ==
    (/\ call.op = "process_document"
     /\ UrlInTable(call.doc)
     /\ call.update_ok
     /\ call.outcome \in {"success", "no_discount"}) =>
        LET entry == overrides[call.doc.data.url]
            written == deals[call.doc.id]
        IN  /\ "unprocessed_pdf_scrape_before_override" \in DOMAIN written
            /\ DOMAIN written.unprocessed_pdf_scrape_before_override.overridden_fields
                  = DOMAIN entry
            /\ call.outcome = "success" =>
                  DOMAIN LastRecord.override_changes = DOMAIN entry

\* An iteration of the loop over the document doc_list[doc_index].
DocumentStep == pc = "loop" /\ doc_index <= Len(doc_list) /\ doc_index' = doc_index + 1

\* The document with its stored fee cleared.
Unprocessed(doc) ==
    [id |-> doc.id, data |-> DictUpdate(doc.data, [underwriters_fee_total |-> None])]

\* C24: with reprocess_processed = False a document whose fee after the
\* overrides is not None is skipped: it is counted under already_processed,
\* no extraction result is taken for it, no record is appended and the
\* step writes nothing to the store, whatever other programs have written
\* to the document; with reprocess_processed = True it has the outcome, the
\* counts, the failure records and the new fee of the same document with
\* no fee stored.
C24_SkipUnlessReprocess ==
    [][(DocumentStep
        /\ DictGet(PostOverride(doc_list[doc_index]), "underwriters_fee_total") # None) =>
          LET doc == doc_list[doc_index]
              fresh == HandleDocument(Unprocessed(doc), overrides, reprocess_processed,
                                      results, call'.update_ok)
          IN  IF ~reprocess_processed
              THEN /\ call'.outcome = "already_processed"
                   /\ call'.discount_result = <<>>
                   /\ results'.already_processed = results.already_processed + 1
                   /\ results'.total_documents = results.total_documents + 1
                   /\ results'.failed_documents = results.failed_documents
                   /\ results'.successful_documents = results.successful_documents
                   /\ results'.processing_failed = results.processing_failed
                   /\ results'.successfully_processed = results.successfully_processed
                   /\ results'.missing_path = results.missing_path
                   /\ deals' = deals
              ELSE /\ call'.outcome # "already_processed"
                   /\ call'.outcome = fresh.trace.outcome
                   /\ results'.already_processed = results.already_processed
                   /\ results'.total_documents = fresh.results.total_documents
                   /\ results'.missing_path = fresh.results.missing_path
                   /\ results'.processing_failed = fresh.results.processing_failed
                   /\ results'.successfully_processed = fresh.results.successfully_processed
                   /\ results'.failed_documents = fresh.results.failed_documents
                   /\ call'.discount_result = fresh.trace.discount_result]_vars

\* A document the batch query read with a fee has been skipped and counted,
\* and it is stored with the fee and the extraction result that the other
\* processor has written to it since the query.
C24_Witness ==
    /\ call.op = "process_document"
    /\ call.outcome = "already_processed"
    /\ ~reprocess_processed
    /\ results.already_processed >= 1
    /\ "underwriters_fee_total" \in DOMAIN call.doc.data
    /\ Same(call.doc.data.underwriters_fee_total, float("1000"))
    /\ Same(deals[call.doc.id].underwriters_fee_total, float("1250.25"))
    /\ Same(deals[call.doc.id].previous_underwriters_fee_total, float("1000"))
    /\ Len(deals[call.doc.id].underwriter_fee.scrape_breakdown.amounts) = 2

\* C25: on a fatal error in the batch loop the processor waits and tries
\* once more: the step that ends the wait after a fatal error takes the
\* loop to its query again, and the run has not ended.
C25_RetryAfterFatalError ==
    [][(pc = "fatal" /\ pc' # "fatal") => pc' = "query"]_vars

\* C26: after each document, total_documents = already_processed +
\* missing_path + processing_failed + successfully_processed.
C26_CounterPartition ==
    results.total_documents =
        results.already_processed + results.missing_path
            + results.processing_failed + results.successfully_processed

\* Documents of each of the four outcomes have been counted, one of them
\* after its store update raised.
C26_Witness ==
    /\ results.total_documents = 3
    /\ results.processing_failed >= 1
    /\ results.missing_path + results.already_processed >= 1
    /\ results.successfully_processed >= 1
    /\ \E k \in 1..Len(results.failed_documents) :
          results.failed_documents[k].reason = UpdateError

\* C27: at every point len(failed_documents) = missing_path +
\* processing_failed and len(successful_documents) =
\* successfully_processed, a raising store update included.
C27_OneRecordPerDocument ==
    /\ Len(results.failed_documents) = results.missing_path + results.processing_failed
    /\ Len(results.successful_documents) = results.successfully_processed

\* C28: without fatal error the batch loop ends, and it ends with
\* total_documents equal to the size of the collection and every document
\* of the collection read.
C28_LoopEndsWithEveryDocument ==
    <>[](/\ pc = "returned"
         /\ results.total_documents = Cardinality(DOMAIN deals)
         /\ (DOMAIN deals # {} => last_doc \in DOMAIN deals)
         /\ \A id \in DOMAIN deals :
               (CHOOSE k \in 1..Len(DocIds) : DocIds[k] = id)
                   <= (CHOOSE k \in 1..Len(DocIds) : DocIds[k] = last_doc))

\* The loop has returned over a collection that exceeds the batch size.
C28_Witness ==
    /\ pc = "returned"
    /\ call.op = "return"
    /\ Cardinality(DOMAIN deals) > BATCH_SIZE
    /\ results.total_documents = Cardinality(DOMAIN deals)

\* C29: in every fee result is_dupe_review_completed is true exactly when
\* the candidate list has one entry; several candidates of the same value
\* give are_amounts_identical = true with is_dupe_review_completed = false.
C29_ReviewUnlessSingleCandidate ==
    Extracted =>
        LET breakdown == call.ret[1].scrape_breakdown
        IN  /\ breakdown.is_dupe_review_completed <=> (Len(breakdown.amounts) = 1)
            /\ (Len(breakdown.amounts) > 1 /\ AllEqual(breakdown.amounts)) =>
                  /\ breakdown.are_amounts_identical
                  /\ ~breakdown.is_dupe_review_completed

\* The same amount matched twice: identical, and still to be reviewed.
C29_Witness ==
    /\ Extracted
    /\ Len(call.ret[1].scrape_breakdown.amounts) = 2
    /\ AllEqual(call.ret[1].scrape_breakdown.amounts)
    /\ call.ret[1].scrape_breakdown.are_amounts_identical
    /\ ~call.ret[1].scrape_breakdown.is_dupe_review_completed

\* The iteration has written no field of the stored document other than
\* those of the set written: the others are as they were stored before it,
\* whoever wrote them.
OnlyWritten(before, stored, written) ==
    /\ DOMAIN stored = DOMAIN before \cup written
    /\ \A field \in DOMAIN before \ written : before[field] = stored[field]

\* What C30 says of an iteration, previous being the value that a
\* successful extraction is to store as previous_underwriters_fee_total.
FeeFieldsWritten(doc, previous) ==
    LET before == deals[doc.id]
        stored == deals'[doc.id]
    IN  /\ (call'.outcome = "no_discount") =>
              /\ OnlyWritten(before, stored, {"underwriter_fee"})
              /\ stored.underwriter_fee.total = None
        /\ (call'.outcome = "success") =>
              /\ OnlyWritten(before, stored,
                             {"previous_underwriters_fee_total", "underwriters_fee_total",
                              "underwriter_fee", "unprocessed_pdf_scrape_before_override"})
              /\ Same(previous, stored.previous_underwriters_fee_total)
              /\ Same(stored.underwriters_fee_total, call'.discount_result[1].total)
        /\ (call'.outcome \notin {"no_discount", "success"}) =>
              OnlyWritten(before, stored, {})

(* get_canonical_name and get_canonical_name_from_website read one index   *)
(* once, and are the actions GetCanonicalName and                          *)
(* GetCanonicalNameFromWebsite above.                                      *)
(***************************************************************************)
\* add_company calls in a run of the shared registry.
MaxRegistrations == 1

\* add_company up to self.companies[canonical_name] = Company(...): the
\* cleaned sets are computed and the record is stored; the entries of the
\* two indexes are still to be written.
RegisterCompany(canonical_name, name_variations, websites) ==
    /\ registering = <<>>
    /\ ncalls < MaxRegistrations
    /\ LET clean_variations == {Strip(name) : name \in Elems(name_variations)}
           clean_websites ==
               {d \in {clean_website(url) : url \in Elems(websites)} : Truthy(d)}
       IN  /\ standardizer' =
                  [standardizer EXCEPT !.companies =
                      DictSet(@, canonical_name,
                              Company(canonical_name, clean_variations, clean_websites))]
           /\ registering' = <<[canonical_name |-> canonical_name,
                                name_variations |-> name_variations,
                                websites |-> websites,
                                variations_left |-> clean_variations,
                                websites_left |-> clean_websites]>>
    /\ ncalls' = ncalls + 1
    /\ UNCHANGED <<call, lookups, pipeline_vars>>

\* for variation in clean_variations: one pass of the loop.  The order of
\* a set's elements is not fixed.
IndexVariation(variation) ==
    /\ registering # <<>>
    /\ variation \in registering[1].variations_left
    /\ standardizer' =
           [standardizer EXCEPT !.name_to_canonical =
               DictSetAll(@, {variation}, registering[1].canonical_name)]
    /\ registering' = <<[registering[1] EXCEPT !.variations_left = @ \ {variation}]>>
    /\ UNCHANGED <<call, ncalls, lookups, pipeline_vars>>

\* for website in clean_websites: one pass of the loop.
IndexWebsite(website) ==
    /\ registering # <<>>
    /\ registering[1].variations_left = {}
    /\ website \in registering[1].websites_left
    /\ standardizer' =
           [standardizer EXCEPT !.website_to_canonical =
               DictSetAll(@, {website}, registering[1].canonical_name)]
    /\ registering' = <<[registering[1] EXCEPT !.websites_left = @ \ {website}]>>
    /\ UNCHANGED <<call, ncalls, lookups, pipeline_vars>>

\* add_company returns.
ReturnAddCompany ==
    /\ registering # <<>>
    /\ registering[1].variations_left = {}
    /\ registering[1].websites_left = {}
    /\ call' = [op |-> "add_company",
                canonical_name |-> registering[1].canonical_name,
                name_variations |-> registering[1].name_variations,
                websites |-> registering[1].websites]
    /\ registering' = <<>>
    /\ UNCHANGED <<standardizer, ncalls, lookups, pipeline_vars>>

\* get_company_info: canonical = self.get_canonical_name_from_website(identifier).
InfoByWebsite(caller, identifier) ==
    /\ lookups[caller].pc = "idle"
    /\ LET canonical == get_canonical_name_from_website(standardizer, identifier)
       IN  lookups' = [lookups EXCEPT ![caller] =
                          [pc |-> IF Truthy(canonical) THEN "companies" ELSE "by_name",
                           identifier |-> identifier,
                           canonical |-> canonical]]
    /\ UNCHANGED <<standardizer, call, ncalls, registering, pipeline_vars>>

\* get_company_info as it would be if the name it resolves were kept in the
\* name index under the identifier given.
InfoByName_caching(caller) ==
    /\ lookups[caller].pc = "by_name"
    /\ LET canonical == get_canonical_name(standardizer, lookups[caller].identifier)
       IN  /\ lookups' = [lookups EXCEPT ![caller].pc = "companies",
                                         ![caller].canonical = canonical]
           /\ standardizer' =
                  IF Truthy(canonical)
                  THEN [standardizer EXCEPT !.name_to_canonical =
                           DictSetAll(@, {lookups[caller].identifier}, canonical)]
                  ELSE standardizer
    /\ UNCHANGED <<call, ncalls, registering, pipeline_vars>>

\* get_company_info: if not canonical: canonical = self.get_canonical_name(identifier).
InfoByName(caller) ==
    /\ lookups[caller].pc = "by_name"
    /\ lookups' = [lookups EXCEPT
                      ![caller].pc = "companies",
                      ![caller].canonical =
                          get_canonical_name(standardizer, lookups[caller].identifier)]
    /\ UNCHANGED <<standardizer, call, ncalls, registering, pipeline_vars>>

\* get_company_info: return self.companies.get(canonical).
InfoReturn(caller) ==
    /\ lookups[caller].pc = "companies"
    /\ call' = [op |-> "get_company_info", arg |-> lookups[caller].identifier,
                ret |-> IF lookups[caller].canonical \in DOMAIN standardizer.companies
                        THEN <<standardizer.companies[lookups[caller].canonical]>>
                        ELSE <<>>]
    /\ lookups' = [lookups EXCEPT ![caller] = NoLookup]
    /\ UNCHANGED <<standardizer, ncalls, registering, pipeline_vars>>

\* Registries after initialization: the one CompanyStandardizer() returns,
\* and those one add_company call of a caller then leaves.
InitializedRegistries ==
    {CompanyStandardizer}
        \cup {add_company(CompanyStandardizer, c, n, w) :
                 c \in CanonicalNames, n \in NameLists, w \in SiteLists}

\* The resolution calls of the callers, in any interleaving.
NextLookups ==
    \/ \E caller \in Callers, identifier \in InfoInputs : InfoByWebsite(caller, identifier)
    \/ \E caller \in Callers : InfoByName(caller)
    \/ \E caller \in Callers : InfoReturn(caller)
    \/ \E raw \in NameInputs : GetCanonicalName(raw)
    \/ \E raw \in WebsiteInputs : GetCanonicalNameFromWebsite(raw)

InitLookups ==
    /\ standardizer \in InitializedRegistries
    /\ call = [op |-> "__init__"]
    /\ ncalls = 0
    /\ PipelineIdle
    /\ CallersIdle

\* Concurrent resolution calls on an initialized registry.
SpecLookups == InitLookups /\ [][NextLookups]_vars

\* add_company calls made at run time on the seeded registry: one gives
\* Barclays Capital a variation it has, with other whitespace, a variation
\* that reads as a URL and a website it has; one moves the variation
\* "Barclays" and the website of Barclays Capital to BofA Securities.
RegisterInputs ==
    {[canonical_name |-> "Barclays Capital",
      name_variations |-> <<"  Barclays ", "www.bofaml.com">>,
      websites |-> <<"barclays.com">>],
     [canonical_name |-> "BofA Securities",
      name_variations |-> <<"Barclays">>,
      websites |-> <<"HTTPS://www.Barclays.com/us?x=1", "http://">>]}

\* The variations and websites the add_company call under way has still to
\* index.
VariationsLeft == IF registering = <<>> THEN {} ELSE registering[1].variations_left
WebsitesLeft == IF registering = <<>> THEN {} ELSE registering[1].websites_left

\* Resolution calls next to add_company calls made at run time.
NextRegister ==
    \/ NextLookups
    \/ \E r \in RegisterInputs :
           RegisterCompany(r.canonical_name, r.name_variations, r.websites)
    \/ \E variation \in VariationsLeft : IndexVariation(variation)
    \/ \E website \in WebsitesLeft : IndexWebsite(website)
    \/ ReturnAddCompany

InitRegister ==
    /\ standardizer = CompanyStandardizer
    /\ call = [op |-> "__init__"]
    /\ ncalls = 0
    /\ PipelineIdle
    /\ CallersIdle

SpecRegister == InitRegister /\ [][NextRegister]_vars

\* What the last call returned is what the same call gives when it runs
\* alone on the registry.
AnswersAsSequential ==
    /\ call.op = "get_canonical_name" =>
          call.ret = get_canonical_name(standardizer, call.arg)
    /\ call.op = "get_canonical_name_from_website" =>
          call.ret = get_canonical_name_from_website(standardizer, call.arg)
    /\ call.op = "get_company_info" =>
          call.ret = get_company_info(standardizer, call.arg)

\* C22: resolution calls are read-only on the registry: every step of
\* get_canonical_name, get_canonical_name_from_website and
\* get_company_info, in any number and any interleaving among the callers,
\* leaves companies and both indexes unchanged, and every answer on an
\* initialized registry is the answer of the call run alone.
C22_LookupsReadOnly ==
    /\ [][standardizer' = standardizer]_vars
    /\ []AnswersAsSequential

\* Two get_company_info calls are under way at once, at different reads,
\* after a third returned a company.
C22_Witness ==
    /\ lookups["caller1"].pc = "by_name"
    /\ lookups["caller2"].pc = "companies"
    /\ call.op = "get_company_info"
    /\ call.ret # <<>>

\* The add_company call under way has stored its record in companies while
\* a variation or a website of the call does not resolve to its company
\* yet.
PartiallyRegistered ==
    /\ registering # <<>>
    /\ registering[1].canonical_name \in DOMAIN standardizer.companies
    /\ \/ \E variation \in registering[1].variations_left :
              DictGet(standardizer.name_to_canonical, variation)
                  # registering[1].canonical_name
       \/ \E website \in registering[1].websites_left :
              DictGet(standardizer.website_to_canonical, website)
                  # registering[1].canonical_name

\* A caller makes one of the reads of get_company_info.
LookupReads == \E caller \in Callers : lookups'[caller].pc # lookups[caller].pc

\* C23: add_company calls are serialized with the lookups: no lookup reads
\* the registry while an entity is partially registered.
C23_NoLookupSeesPartialEntity ==
    [][LookupReads => ~PartiallyRegistered]_vars

====
